---- MODULE Spec2Model ----
(***************************************************************************)
(* CodexMonitor front-end hooks.                                           *)
(*                                                                         *)
(* useGitStatus (src/features/git/hooks/useGitStatus.ts): the git-status   *)
(* polling hook.  One hook instance is modelled: its React state `status`, *)
(* its three refs, the intervals armed by its polling effect and the       *)
(* getGitStatus promises that have not settled yet.                        *)
(*                                                                         *)
(* Encoding of values                                                      *)
(*   - a string that the code trims is a sequence of pieces, each piece a  *)
(*     whitespace character " " or a word: "main" is <<"main">>, "" is     *)
(*     <<>>, " main" is <<" ", "main">>;                                   *)
(*   - an optional value (T | undefined, T | null) is a sequence of at     *)
(*     most one element: None is <<>>, Some(x) is <<x>>;                   *)
(*   - a workspace id is a string, NoWorkspace stands for null.            *)
(*                                                                         *)
(* A change of the activeWorkspace prop and the two effects that the       *)
(* commit of that render runs are one step (SetActiveWorkspace).           *)
(***************************************************************************)
EXTENDS Integers, Sequences, FiniteSets, TLC

(* ---------------------------------------------------------------------- *)
(* Bounds                                                                  *)
(* ---------------------------------------------------------------------- *)

\* Largest value the request counter may reach; actions that would exceed
\* it are disabled.
MaxRequestId == 5

\* Request ids of a run without end are folded onto 1..LiveIds.
LiveIds == 3

\* Longest file list among the snapshots that are compared.
MaxFiles == 2

\* Longest draft text of the composer.
MaxDraftLen == 2

\* Largest value the request counter of the config hook may reach.
MaxConfigRequestId == 4

\* Longest composer text the autocomplete hook is given.
MaxTextLen == 2

\* Longest item list of a trigger.
MaxItems == 2

(* ---------------------------------------------------------------------- *)
(* Values                                                                  *)
(* ---------------------------------------------------------------------- *)

None == <<>>

Some(x) == <<x>>

NoWorkspace == "null"

Workspaces == {"A", "B"}

Unknown == <<"unknown">>

EmptyString == <<>>

IsWhitespace(piece) == piece = " "

\* String.prototype.trim: drop leading, then trailing, whitespace.
RECURSIVE TrimStart(_)
TrimStart(s) ==
    IF s # <<>> /\ IsWhitespace(Head(s)) THEN TrimStart(Tail(s)) ELSE s

RECURSIVE TrimEnd(_)
TrimEnd(s) ==
    IF s # <<>> /\ IsWhitespace(s[Len(s)])
    THEN TrimEnd(SubSeq(s, 1, Len(s) - 1))
    ELSE s

Trim(s) == TrimEnd(TrimStart(s))

\* GitFileStatus values the status source reports.
FileA == [path |-> "a.ts", status |-> "M", additions |-> 3, deletions |-> 1]

FileB == [path |-> "b.ts", status |-> "A", additions |-> 2, deletions |-> 0]

\* The file part of the answers of getGitStatus.
FileData ==
    { [files |-> <<>>, stagedFiles |-> <<>>, unstagedFiles |-> <<>>,
       totalAdditions |-> 0, totalDeletions |-> 0],
      [files |-> <<FileB, FileA>>, stagedFiles |-> <<FileB>>,
       unstagedFiles |-> <<FileA>>,
       totalAdditions |-> 5, totalDeletions |-> 1] }

\* branchName?: string of an answer: missing, empty, "unknown", a known
\* name, a known name with leading whitespace.
IncomingBranchNames ==
    { None, Some(EmptyString), Some(Unknown), Some(<<"main">>),
      Some(<<" ", "dev">>) }

\* The answers getGitStatus may resolve with.
RawStatus ==
    { [branchName |-> b, files |-> d.files, stagedFiles |-> d.stagedFiles,
       unstagedFiles |-> d.unstagedFiles, totalAdditions |-> d.totalAdditions,
       totalDeletions |-> d.totalDeletions] :
      b \in IncomingBranchNames, d \in FileData }

\* The messages getGitStatus may reject with.
Messages == {"network down", "timeout"}

emptyStatus ==
    [branchName |-> EmptyString, files |-> <<>>, stagedFiles |-> <<>>,
     unstagedFiles |-> <<>>, totalAdditions |-> 0, totalDeletions |-> 0,
     error |-> None]

(* ---------------------------------------------------------------------- *)
(* Pure functions                                                          *)
(* ---------------------------------------------------------------------- *)

\* Mutant of sameFileStatusLists: the entries are compared as sets.
sameFileStatusListsUnordered(a, b) ==
    /\ Len(a) = Len(b)
    /\ {a[index] : index \in 1..Len(a)} = {b[index] : index \in 1..Len(b)}

sameFileStatusLists(a, b) ==
    IF Len(a) # Len(b)
    THEN FALSE
    ELSE \A index \in 1..Len(a) :
            /\ a[index].path = b[index].path
            /\ a[index].status = b[index].status
            /\ a[index].additions = b[index].additions
            /\ a[index].deletions = b[index].deletions

sameStatusState(a, b) ==
    /\ a.branchName = b.branchName
    /\ a.error = b.error
    /\ a.totalAdditions = b.totalAdditions
    /\ a.totalDeletions = b.totalDeletions
    /\ sameFileStatusLists(a.files, b.files)
    /\ sameFileStatusLists(a.stagedFiles, b.stagedFiles)
    /\ sameFileStatusLists(a.unstagedFiles, b.unstagedFiles)

\* A string is truthy when it is not empty.
Truthy(s) == s # EmptyString

\* Mutants of resolveBranchName: the cached name is not consulted; the
\* fallback is the empty string instead of the trimmed incoming name.
resolveBranchNameNotSticky(incoming, cached) ==
    IF incoming = None THEN EmptyString ELSE Trim(incoming[1])

resolveBranchNameBlankFallback(incoming, cached) ==
    LET trimmed == IF incoming = None THEN None ELSE Some(Trim(incoming[1]))
        cachedBranch ==
            IF cached = None THEN None ELSE Some(Trim(cached[1].branchName))
    IN  IF trimmed # None /\ Truthy(trimmed[1]) /\ trimmed[1] # Unknown
        THEN trimmed[1]
        ELSE IF cachedBranch # None /\ Truthy(cachedBranch[1])
                /\ cachedBranch[1] # Unknown
             THEN cachedBranch[1]
             ELSE EmptyString

\* incoming: optional string; cached: optional GitStatusState.
resolveBranchName(incoming, cached) ==
    LET trimmed == IF incoming = None THEN None ELSE Some(Trim(incoming[1]))
        cachedBranch ==
            IF cached = None THEN None ELSE Some(Trim(cached[1].branchName))
    IN  IF trimmed # None /\ Truthy(trimmed[1]) /\ trimmed[1] # Unknown
        THEN trimmed[1]
        ELSE IF cachedBranch # None /\ Truthy(cachedBranch[1])
                /\ cachedBranch[1] # Unknown
             THEN cachedBranch[1]
             ELSE IF trimmed # None THEN trimmed[1] ELSE EmptyString

(* ---------------------------------------------------------------------- *)
(* State                                                                   *)
(* ---------------------------------------------------------------------- *)

VARIABLES
    workspaceId,      \* activeWorkspace?.id ?? null of the committed render
    status,           \* useState: the displayed GitStatusState (after
                      \* teardown: the value setStatus was last given)
    requestIdRef,     \* requestIdRef.current
    workspaceIdRef,   \* workspaceIdRef.current
    cachedStatusRef,  \* cachedStatusRef.current: Map<string, GitStatusState>
    intervals,        \* per workspace, the number of armed intervals whose
                      \* fetchStatus polls it
    mounted,          \* the component has not been torn down
    inFlight,         \* getGitStatus promises not settled yet
    overtaken,        \* history: promises that were pending when the active
                      \* workspace changed
    settledSinceSwitch, \* history: a promise issued since the last change of
                      \* the active workspace has settled
    last              \* history: the step taken last

\* sameStatusState on its own: the two arguments of a call and what the
\* call returned.
VARIABLES
    snapshotA,        \* first argument
    snapshotB,        \* second argument
    same              \* None before the call, Some(result) after it

\* useComposerInsert (src/features/app/hooks/useComposerInsert.ts): one
\* hook instance.  The draft and the insert text are sequences of
\* characters.  A render and the effect of its commit are one step.
VARIABLES
    isEnabled,        \* prop of the committed render
    draftText,        \* prop of the committed render
    draftTextRef,     \* draftTextRef.current
    textareaRef,      \* textareaRef.current: None, or Some of the selection
                      \* of the node as it was last set (the DOM clamps it to
                      \* the length of the node's value, slice to the draft's)
    insertCallback,   \* the function useCallback returned: the isEnabled
                      \* and draftText in scope of the render that created it
    animationFrame,   \* the cursor of the requestAnimationFrame callback
                      \* registered last and not yet run; callbacks
                      \* registered before it run in the same frame, first
    insertLast        \* history: the step taken last, with the arguments of
                      \* the onDraftChange calls it made

\* useGlobalCodexConfigToml (src/features/settings/hooks): one hook
\* instance.  A setState call and the render that follows are one step.
VARIABLES
    configState,          \* useState: GlobalCodexConfigState
    lastLoadedContentRef, \* lastLoadedContentRef.current
    configRequestIdRef,   \* requestIdRef.current of this hook
    inFlightRef,          \* inFlightRef.current
    reads,                \* readGlobalCodexConfigToml promises not settled
                          \* yet: the requestId of the refresh() awaiting each
    writes,               \* writeGlobalCodexConfigToml promises not settled
                          \* yet: requestId and content of the save() awaiting
    isDirty,              \* the value of the useMemo of the committed render
    configLast            \* history: the step taken last

\* useComposerAutocomplete (src/features/composer/hooks): one hook
\* instance.  A change of the props, the render and the effect that
\* follows it are one step; so are a setState call and its render.
VARIABLES
    text,             \* prop: the composer text
    selectionStart,   \* prop: the cursor, None for null
    triggers,         \* prop: the AutocompleteTrigger list
    maxResults,       \* prop
    highlightIndex,   \* useState
    dismissed,        \* useState
    closedAt          \* history: trigger, query and range at the last
                      \* close(), None once any of them has changed

autocompleteVars ==
    <<text, selectionStart, triggers, maxResults, highlightIndex, dismissed,
      closedAt>>

configVars ==
    <<configState, lastLoadedContentRef, configRequestIdRef, inFlightRef,
      reads, writes, isDirty, configLast>>

insertVars ==
    <<isEnabled, draftText, draftTextRef, textareaRef, insertCallback,
      animationFrame, insertLast>>

gitVars ==
    <<workspaceId, status, requestIdRef, workspaceIdRef, cachedStatusRef,
      intervals, mounted, inFlight, overtaken, settledSinceSwitch, last>>

eqVars == <<snapshotA, snapshotB, same>>

vars ==
    <<workspaceId, status, requestIdRef, workspaceIdRef, cachedStatusRef,
      intervals, mounted, inFlight, overtaken, settledSinceSwitch, last,
      snapshotA, snapshotB, same,
      isEnabled, draftText, draftTextRef, textareaRef, insertCallback,
      animationFrame, insertLast,
      configState, lastLoadedContentRef, configRequestIdRef, inFlightRef,
      reads, writes, isDirty, configLast,
      text, selectionStart, triggers, maxResults, highlightIndex, dismissed,
      closedAt>>

\* No comparison is under way.
EqIdle ==
    /\ snapshotA = emptyStatus
    /\ snapshotB = emptyStatus
    /\ same = None

EMPTY_STATE ==
    [content |-> "", exists |-> FALSE, truncated |-> FALSE,
     isLoading |-> FALSE, isSaving |-> FALSE, error |-> None]

\* History record of a step of the config hook: the number of the request
\* it issued or settled, whether a completion passed the guard, and the
\* title of the toast it pushed.
ConfigStep(kind, requestId, applied, toast) ==
    [kind |-> kind, requestId |-> requestId, applied |-> applied,
     toast |-> toast]

\* The autocomplete hook is not rendered.
AutocompleteIdle ==
    /\ text = EmptyString
    /\ selectionStart = None
    /\ triggers = <<>>
    /\ maxResults = 8
    /\ highlightIndex = 0
    /\ dismissed = FALSE
    /\ closedAt = None

\* The config hook is not rendered.
ConfigIdle ==
    /\ configState = EMPTY_STATE
    /\ lastLoadedContentRef = ""
    /\ configRequestIdRef = 0
    /\ inFlightRef = FALSE
    /\ reads = {}
    /\ writes = {}
    /\ isDirty = FALSE
    /\ configLast = ConfigStep("idle", 0, FALSE, None)

\* The composer is not rendered.
InsertIdle ==
    /\ isEnabled = FALSE
    /\ draftText = EmptyString
    /\ draftTextRef = EmptyString
    /\ textareaRef = None
    /\ insertCallback = [isEnabled |-> FALSE, draftText |-> EmptyString]
    /\ animationFrame = None
    /\ insertLast = [kind |-> "mount", text |-> EmptyString, calls |-> <<>>,
                     scheduled |-> FALSE, recreated |-> FALSE]

\* Map.get
MapGet(map, key) == IF key \in DOMAIN map THEN Some(map[key]) ELSE None

\* Map.set
MapSet(map, key, value) ==
    [k \in DOMAIN map \cup {key} |-> IF k = key THEN value ELSE map[k]]

EmptyMap == [k \in {} |-> emptyStatus]

\* setStatus((prev) => (sameStatusState(prev, nextStatus) ? prev : nextStatus))
setStatusIfChanged(prev, nextStatus) ==
    IF sameStatusState(prev, nextStatus) THEN prev ELSE nextStatus

\* Mutant of setStatusRerenders: setStatus(nextStatus), a new object on
\* every call.
setStatusAlwaysRerenders(prev, nextStatus) == TRUE

\* The updater returns prev itself, and React keeps the rendered output,
\* unless the two differ; nextStatus is an object built by the callback.
setStatusRerenders(prev, nextStatus) == ~sameStatusState(prev, nextStatus)

\* promise.then(onData): onData returns normally; a rejection passes on.
ThenState(promise) ==
    IF promise = "fulfilled" THEN "fulfilled" ELSE "rejected"

\* promise.catch(onError): onError returns normally.
CatchState(promise) == "fulfilled"

\* The promise refresh() returns, given how getGitStatus settled.
RefreshPromise(source) == CatchState(ThenState(source))

\* refresh()?.catch(() => {}) of fetchStatus.
FetchStatusPromise(source) == CatchState(RefreshPromise(source))

\* A promise of getGitStatus(workspaceId) with the requestId and the
\* workspaceId its callbacks closed over.
Request(requestId, ws) == [requestId |-> requestId, workspaceId |-> ws]

\* History record of a step that issues a fetch or changes the workspace:
\* hadCache and hadSnapshot describe the state the step started in.
Issued(kind, ws, requestId) ==
    [kind |-> kind, workspaceId |-> ws, requestId |-> requestId,
     applied |-> FALSE, overtaken |-> FALSE,
     hadCache |-> ws \in DOMAIN cachedStatusRef,
     hadSnapshot |-> status # emptyStatus,
     data |-> None, message |-> None,
     rerender |-> FALSE, returned |-> "pending", afterRefresh |-> FALSE,
     appliedId |-> last.appliedId]

\* History record of the settlement of a promise: applied tells which
\* branch the callback took, data / message what the callback built
\* nextStatus from (None when it returned early), rerender whether its
\* setStatus call replaced the displayed object, returned how the promise
\* that refresh() had returned settled, afterRefresh whether the promise
\* is the one the refresh() call of the step before issued, appliedId the
\* number of the request whose callback applied most recently (0: none
\* yet), which every step carries along.
Settled(kind, request, applied, data, message, rerender) ==
    [kind |-> kind, workspaceId |-> request.workspaceId,
     requestId |-> request.requestId,
     applied |-> applied, overtaken |-> request \in overtaken,
     hadCache |-> request.workspaceId \in DOMAIN cachedStatusRef,
     hadSnapshot |-> status # emptyStatus,
     data |-> data, message |-> message,
     rerender |-> rerender,
     returned |-> RefreshPromise(IF kind = "resolve" THEN "fulfilled"
                                 ELSE "rejected"),
     afterRefresh |-> /\ last.kind = "refresh"
                      /\ last.workspaceId # NoWorkspace
                      /\ last.requestId = request.requestId,
     appliedId |-> IF applied THEN request.requestId ELSE last.appliedId]

(* ---------------------------------------------------------------------- *)
(* Operations                                                              *)
(* ---------------------------------------------------------------------- *)

\* Mutants of IsStale: the workspace alone is compared; both conditions
\* are required; nothing is compared.
IsStaleWorkspaceOnly(current, currentWorkspace, request) ==
    currentWorkspace # request.workspaceId

IsStaleBoth(current, currentWorkspace, request) ==
    /\ current # request.requestId
    /\ currentWorkspace # request.workspaceId

IsStaleNever(current, currentWorkspace, request) == FALSE

\* The guard of both completion callbacks: the request is stale.
IsStale(current, currentWorkspace, request) ==
    \/ current # request.requestId
    \/ currentWorkspace # request.workspaceId

\* Mutants of SuccessStatus: the files are listed unstaged first; the error
\* on display is kept.
SuccessStatusRegrouped(data, cached) ==
    [branchName |-> resolveBranchName(data.branchName, cached),
     files |-> data.unstagedFiles \o data.stagedFiles,
     stagedFiles |-> data.stagedFiles,
     unstagedFiles |-> data.unstagedFiles,
     totalAdditions |-> data.totalAdditions,
     totalDeletions |-> data.totalDeletions,
     error |-> None]

SuccessStatusKeepsError(data, cached) ==
    [branchName |-> resolveBranchName(data.branchName, cached),
     files |-> data.files, stagedFiles |-> data.stagedFiles,
     unstagedFiles |-> data.unstagedFiles,
     totalAdditions |-> data.totalAdditions,
     totalDeletions |-> data.totalDeletions,
     error |-> status.error]

\* nextStatus of the success callback.
SuccessStatus(data, cached) ==
    [branchName |-> resolveBranchName(data.branchName, cached),
     files |-> data.files, stagedFiles |-> data.stagedFiles,
     unstagedFiles |-> data.unstagedFiles,
     totalAdditions |-> data.totalAdditions,
     totalDeletions |-> data.totalDeletions,
     error |-> None]

\* Mutant of SuccessCache: the write is left out.
SuccessCacheSkipped(map, ws, nextStatus) == map

\* Mutant of SuccessCache: the entries of other workspaces are evicted.
SuccessCacheEvicts(map, ws, nextStatus) == [k \in {ws} |-> nextStatus]

\* The cache after the success callback.
SuccessCache(map, ws, nextStatus) == MapSet(map, ws, nextStatus)

\* Mutants of FailureStatus: the cached data is cleared; the branch name of
\* the default is kept; the error is put on the status on display.
FailureStatusCleared(message, cached) ==
    [emptyStatus EXCEPT !.branchName = Unknown, !.error = Some(message)]

FailureStatusBlankBranch(message, cached) ==
    IF cached # None
    THEN [cached[1] EXCEPT !.error = Some(message)]
    ELSE [emptyStatus EXCEPT !.error = Some(message)]

FailureStatusDefaultKept(message, cached) ==
    [status EXCEPT !.error = Some(message)]

\* nextStatus of the failure callback.
FailureStatus(message, cached) ==
    IF cached # None
    THEN [cached[1] EXCEPT !.error = Some(message)]
    ELSE [emptyStatus EXCEPT !.branchName = Unknown, !.error = Some(message)]

\* Mutants of SwitchStatus: without a cache entry the status is left as it
\* is; the cache is not consulted.
SwitchStatusKept(ws, cached) ==
    IF ws = NoWorkspace THEN emptyStatus
    ELSE IF cached # None THEN cached[1] ELSE status

SwitchStatusNoCache(ws, cached) == emptyStatus

\* Status the first effect displays for the workspace that became active.
SwitchStatus(ws, cached) ==
    IF ws = NoWorkspace THEN emptyStatus
    ELSE IF cached # None THEN cached[1] ELSE emptyStatus

\* Mutant of ClearInterval: the cleanup does not clear the interval.
ClearIntervalForgotten(timers, ws) == timers

\* The cleanup of the polling effect of a render whose workspaceId is ws:
\* that effect armed an interval only if ws is not null.
ClearInterval(timers, ws) ==
    IF ws = NoWorkspace THEN timers ELSE [timers EXCEPT ![ws] = @ - 1]

\* window.setInterval(fetchStatus, REFRESH_INTERVAL_MS) of a render whose
\* workspaceId is ws.
SetInterval(timers, ws) == [timers EXCEPT ![ws] = @ + 1]

NoIntervals == [w \in Workspaces |-> 0]

\* Mutants of RefreshOf: no fetch while one is pending; no fetch while an
\* error is displayed.
RefreshOfSkipsWhenPending(ws, kind) ==
    IF ws = NoWorkspace
    THEN /\ status' = emptyStatus
         /\ last' = Issued(kind, ws, requestIdRef)
         /\ UNCHANGED <<requestIdRef, inFlight>>
    ELSE IF inFlight # {}
    THEN /\ last' = Issued(kind, ws, requestIdRef)
         /\ UNCHANGED <<status, requestIdRef, inFlight>>
    ELSE /\ requestIdRef < MaxRequestId
         /\ requestIdRef' = requestIdRef + 1
         /\ inFlight' = inFlight \cup {Request(requestIdRef + 1, ws)}
         /\ last' = Issued(kind, ws, requestIdRef + 1)
         /\ UNCHANGED status

RefreshOfStopsOnError(ws, kind) ==
    IF ws = NoWorkspace
    THEN /\ status' = emptyStatus
         /\ last' = Issued(kind, ws, requestIdRef)
         /\ UNCHANGED <<requestIdRef, inFlight>>
    ELSE IF status.error # None
    THEN /\ last' = Issued(kind, ws, requestIdRef)
         /\ UNCHANGED <<status, requestIdRef, inFlight>>
    ELSE /\ requestIdRef < MaxRequestId
         /\ requestIdRef' = requestIdRef + 1
         /\ inFlight' = inFlight \cup {Request(requestIdRef + 1, ws)}
         /\ last' = Issued(kind, ws, requestIdRef + 1)
         /\ UNCHANGED status

\* Mutant of RefreshOf: the fetch takes the number the counter holds.
RefreshOfSameNumber(ws, kind) ==
    IF ws = NoWorkspace
    THEN /\ status' = emptyStatus
         /\ last' = Issued(kind, ws, requestIdRef)
         /\ UNCHANGED <<requestIdRef, inFlight>>
    ELSE /\ requestIdRef < MaxRequestId
         /\ requestIdRef' = requestIdRef
         /\ inFlight' = inFlight \cup {Request(requestIdRef, ws)}
         /\ last' = Issued(kind, ws, requestIdRef)
         /\ UNCHANGED status

\* The body of refresh() as created by a render whose workspaceId is ws.
RefreshOf(ws, kind) ==
    IF ws = NoWorkspace
    THEN /\ status' = emptyStatus
         /\ last' = Issued(kind, ws, requestIdRef)
         /\ UNCHANGED <<requestIdRef, inFlight>>
    ELSE /\ requestIdRef < MaxRequestId
         /\ requestIdRef' = requestIdRef + 1
         /\ inFlight' = inFlight \cup {Request(requestIdRef + 1, ws)}
         /\ last' = Issued(kind, ws, requestIdRef + 1)
         /\ UNCHANGED status

\* The caller invokes the refresh handle of the current render.
Refresh ==
    /\ mounted
    /\ RefreshOf(workspaceId, "refresh")
    /\ UNCHANGED <<workspaceId, workspaceIdRef, cachedStatusRef, intervals,
                   mounted, overtaken, settledSinceSwitch>>
    /\ UNCHANGED <<eqVars, insertVars, configVars, autocompleteVars>>

\* An armed interval fires: fetchStatus calls the refresh of the render
\* that armed it.
Tick ==
    /\ \E ws \in Workspaces :
           /\ intervals[ws] > 0
           /\ RefreshOf(ws, "tick")
    /\ UNCHANGED <<workspaceId, workspaceIdRef, cachedStatusRef, intervals,
                   mounted, overtaken, settledSinceSwitch>>
    /\ UNCHANGED <<eqVars, insertVars, configVars, autocompleteVars>>

\* The parent renders the hook with another activeWorkspace; the commit
\* runs the cleanup of the polling effect, then both effects.
SetActiveWorkspace(next) ==
    /\ mounted
    /\ next # workspaceId
    /\ requestIdRef + 2 <= MaxRequestId
    /\ workspaceId' = next
    /\ overtaken' = inFlight
    /\ settledSinceSwitch' = FALSE
    /\ LET changed == workspaceIdRef # next
           counter == IF changed THEN requestIdRef + 1 ELSE requestIdRef
           shown == IF changed
                    THEN SwitchStatus(next, MapGet(cachedStatusRef, next))
                    ELSE status
       IN  /\ workspaceIdRef' = next
           /\ IF next = NoWorkspace
              THEN /\ status' = emptyStatus
                   /\ requestIdRef' = counter
                   /\ intervals' = ClearInterval(intervals, workspaceId)
                   /\ inFlight' = inFlight
                   /\ last' = Issued("switch", next, counter)
              ELSE /\ status' = shown
                   /\ requestIdRef' = counter + 1
                   /\ intervals' =
                          SetInterval(ClearInterval(intervals, workspaceId),
                                      next)
                   /\ inFlight' = inFlight \cup {Request(counter + 1, next)}
                   /\ last' = Issued("switch", next, counter + 1)
    /\ UNCHANGED <<cachedStatusRef, mounted>>
    /\ UNCHANGED <<eqVars, insertVars, configVars, autocompleteVars>>

\* The component is torn down: the cleanup of the polling effect runs.
Unmount ==
    /\ mounted
    /\ mounted' = FALSE
    /\ intervals' = ClearInterval(intervals, workspaceId)
    /\ last' = Issued("unmount", workspaceId, requestIdRef)
    /\ UNCHANGED <<workspaceId, status, requestIdRef, workspaceIdRef,
                   cachedStatusRef, inFlight, overtaken, settledSinceSwitch>>
    /\ UNCHANGED <<eqVars, insertVars, configVars, autocompleteVars>>

\* History kept by both completion callbacks.
Settle(request) ==
    /\ inFlight' = inFlight \ {request}
    /\ overtaken' = overtaken \ {request}
    /\ settledSinceSwitch' = (settledSinceSwitch \/ request \notin overtaken)

\* getGitStatus resolves with data: the .then callback.
Resolve(request, data) ==
    /\ request \in inFlight
    /\ Settle(request)
    /\ LET ws == request.workspaceId
           cached == MapGet(cachedStatusRef, ws)
           nextStatus == SuccessStatus(data, cached)
       IN  IF IsStale(requestIdRef, workspaceIdRef, request)
           THEN /\ last' = Settled("resolve", request, FALSE, None, None,
                                   FALSE)
                /\ UNCHANGED <<status, cachedStatusRef>>
           ELSE /\ status' = setStatusIfChanged(status, nextStatus)
                /\ cachedStatusRef' = SuccessCache(cachedStatusRef, ws, nextStatus)
                /\ last' = Settled("resolve", request, TRUE, Some(data), None,
                                   setStatusRerenders(status, nextStatus))
    /\ UNCHANGED <<workspaceId, requestIdRef, workspaceIdRef, intervals,
                   mounted>>
    /\ UNCHANGED <<eqVars, insertVars, configVars, autocompleteVars>>

\* Mutant of Reject: the failure callback calls refresh() again.
RejectRetries(request, message) ==
    /\ request \in inFlight
    /\ requestIdRef < MaxRequestId
    /\ requestIdRef' = requestIdRef + 1
    /\ inFlight' = (inFlight \ {request})
                       \cup {Request(requestIdRef + 1, request.workspaceId)}
    /\ overtaken' = overtaken \ {request}
    /\ settledSinceSwitch' = (settledSinceSwitch \/ request \notin overtaken)
    /\ last' = Settled("reject", request, FALSE, None, None, FALSE)
    /\ UNCHANGED <<workspaceId, status, workspaceIdRef, intervals, mounted,
                   cachedStatusRef>>
    /\ UNCHANGED <<eqVars, insertVars, configVars, autocompleteVars>>

\* getGitStatus rejects with an error carrying message: the .catch callback.
Reject(request, message) ==
    /\ request \in inFlight
    /\ Settle(request)
    /\ LET ws == request.workspaceId
           cached == MapGet(cachedStatusRef, ws)
           nextStatus == FailureStatus(message, cached)
       IN  IF IsStale(requestIdRef, workspaceIdRef, request)
           THEN /\ last' = Settled("reject", request, FALSE, None, None,
                                   FALSE)
                /\ UNCHANGED status
           ELSE /\ status' = setStatusIfChanged(status, nextStatus)
                /\ last' = Settled("reject", request, TRUE, None, Some(message),
                                   setStatusRerenders(status, nextStatus))
    /\ UNCHANGED <<workspaceId, requestIdRef, workspaceIdRef, intervals,
                   mounted, cachedStatusRef>>
    /\ UNCHANGED <<eqVars, insertVars, configVars, autocompleteVars>>

\* The state after the first render and its effects, for each initial
\* activeWorkspace.
Mounted(ws) ==
    /\ workspaceId = ws
    /\ workspaceIdRef = ws
    /\ status = emptyStatus
    /\ cachedStatusRef = EmptyMap
    /\ overtaken = {}
    /\ settledSinceSwitch = FALSE
    /\ requestIdRef = IF ws = NoWorkspace THEN 0 ELSE 1
    /\ mounted = TRUE
    /\ intervals = IF ws = NoWorkspace THEN NoIntervals
                   ELSE SetInterval(NoIntervals, ws)
    /\ inFlight = IF ws = NoWorkspace THEN {} ELSE {Request(1, ws)}
    /\ last = [kind |-> "mount", workspaceId |-> ws,
               requestId |-> IF ws = NoWorkspace THEN 0 ELSE 1,
               applied |-> FALSE, overtaken |-> FALSE, hadCache |-> FALSE,
               hadSnapshot |-> FALSE, data |-> None, message |-> None,
               rerender |-> FALSE, returned |-> "pending",
               afterRefresh |-> FALSE, appliedId |-> 0]

Init ==
    /\ \E ws \in Workspaces \cup {NoWorkspace} : Mounted(ws)
    /\ EqIdle
    /\ InsertIdle
    /\ ConfigIdle
    /\ AutocompleteIdle

Next ==
    \/ Refresh
    \/ Tick
    \/ \E next \in Workspaces \cup {NoWorkspace} : SetActiveWorkspace(next)
    \/ Unmount
    \/ \E request \in inFlight, data \in RawStatus : Resolve(request, data)
    \/ \E request \in inFlight, message \in Messages : Reject(request, message)

Spec == Init /\ [][Next]_vars

(* ---------------------------------------------------------------------- *)
(* Callers that keep a refresh handle of an earlier render                 *)
(* ---------------------------------------------------------------------- *)

\* The caller invokes the refresh that a render with workspaceId ws had
\* returned, after another workspace became active.  Such a handle exists
\* once ws has been active, which a cache entry or a pending promise of ws
\* shows.
StaleRefresh(ws) ==
    /\ mounted
    /\ ws # workspaceId
    /\ ws \in DOMAIN cachedStatusRef
                \cup {request.workspaceId : request \in inFlight}
    /\ RefreshOf(ws, "stale refresh")
    /\ UNCHANGED <<workspaceId, workspaceIdRef, cachedStatusRef, intervals,
                   mounted, overtaken, settledSinceSwitch>>
    /\ UNCHANGED <<eqVars, insertVars, configVars, autocompleteVars>>

HandleNext ==
    \/ Next
    \/ \E ws \in Workspaces : StaleRefresh(ws)

HandleSpec == Init /\ [][HandleNext]_vars

(* ---------------------------------------------------------------------- *)
(* Polling of one workspace, without end                                   *)
(* ---------------------------------------------------------------------- *)

\* Request ids are only ever compared for equality (IsStale), so a run
\* without end is folded onto LiveIds ids: an id is taken again once no
\* pending promise holds it.
NextRequestId(current) == (current % LiveIds) + 1

\* The body of refresh() as created by a render whose workspaceId is ws (not
\* null here), with the folded counter.
LiveRefreshOf(ws, kind) ==
    LET requestId == NextRequestId(requestIdRef)
    IN  /\ \A request \in inFlight : request.requestId # requestId
        /\ requestIdRef' = requestId
        /\ inFlight' = inFlight \cup {Request(requestId, ws)}
        /\ last' = Issued(kind, ws, requestId)
        /\ UNCHANGED status

\* The armed interval fires.
LiveTick ==
    /\ \E ws \in Workspaces :
           /\ intervals[ws] > 0
           /\ LiveRefreshOf(ws, "tick")
    /\ UNCHANGED <<workspaceId, workspaceIdRef, cachedStatusRef, intervals,
                   mounted, overtaken, settledSinceSwitch>>
    /\ UNCHANGED <<eqVars, insertVars, configVars, autocompleteVars>>

\* getGitStatus settles the promise request, either way.
Complete(request) ==
    \/ \E data \in RawStatus : Resolve(request, data)
    \/ \E message \in Messages : Reject(request, message)

\* Every promise getGitStatus can hand out in such a run.
LiveRequests == {Request(i, ws) : i \in 1..LiveIds, ws \in Workspaces}

\* A workspace is active from the first render on and stays active.
LiveInit ==
    /\ \E ws \in Workspaces : Mounted(ws)
    /\ EqIdle
    /\ InsertIdle
    /\ ConfigIdle
    /\ AutocompleteIdle

\* The interval and getGitStatus alone act: the caller never calls refresh.
LiveNext ==
    \/ LiveTick
    \/ \E request \in inFlight, data \in RawStatus : Resolve(request, data)
    \/ \E request \in inFlight, message \in Messages : Reject(request, message)

\* The interval keeps firing while it is armed, and getGitStatus settles
\* every promise it hands out.
LiveFairness ==
    /\ WF_vars(LiveTick)
    /\ \A request \in LiveRequests : WF_vars(Complete(request))

LiveSpec == LiveInit /\ [][LiveNext]_vars /\ LiveFairness

(* ---------------------------------------------------------------------- *)
(* sameStatusState on its own                                              *)
(* ---------------------------------------------------------------------- *)

\* GitFileStatus values that differ from FileA in one field each.
FileVariants ==
    { [FileA EXCEPT !.path = "c.ts"], [FileA EXCEPT !.status = "D"],
      [FileA EXCEPT !.additions = 4], [FileA EXCEPT !.deletions = 0] }

\* GitFileStatus[] values: every list of FileA and FileB of at most n
\* entries.
RECURSIVE FileLists(_)
FileLists(n) ==
    IF n = 0
    THEN {<<>>}
    ELSE LET shorter == FileLists(n - 1)
         IN  shorter \cup
             { Append(list, file) :
                 list \in {l \in shorter : Len(l) = n - 1},
                 file \in {FileA, FileB} }

Reverse(list) == [i \in 1..Len(list) |-> list[Len(list) + 1 - i]]

\* branchName, error and the totals: one base and one change of each field.
ScalarParts ==
    LET base == [branchName |-> <<"main">>, error |-> None,
                 totalAdditions |-> 5, totalDeletions |-> 1]
    IN  { base, [base EXCEPT !.branchName = <<"dev">>],
          [base EXCEPT !.error = Some("timeout")],
          [base EXCEPT !.totalAdditions = 4],
          [base EXCEPT !.totalDeletions = 0] }

\* GitStatusState values handed to sameStatusState.
Snapshots ==
    UNION
    { { [branchName |-> part.branchName, error |-> part.error,
         totalAdditions |-> part.totalAdditions,
         totalDeletions |-> part.totalDeletions,
         files |-> list, stagedFiles |-> staged, unstagedFiles |-> unstaged] :
          part \in ScalarParts,
          staged \in {<<>>, list, Reverse(list)},
          unstaged \in {<<>>, list} } :
      list \in FileLists(MaxFiles) \cup {<<file>> : file \in FileVariants} }

\* sameStatusState(snapshotA, snapshotB) is called.
Compare ==
    /\ same = None
    /\ same' = Some(sameStatusState(snapshotA, snapshotB))
    /\ UNCHANGED <<snapshotA, snapshotB>>
    /\ UNCHANGED <<gitVars, insertVars, configVars, autocompleteVars>>

EqInit ==
    /\ snapshotA \in Snapshots
    /\ snapshotB \in Snapshots
    /\ same = None
    /\ Mounted(NoWorkspace)
    /\ InsertIdle
    /\ ConfigIdle
    /\ AutocompleteIdle

EqNext == Compare

EqSpec == EqInit /\ [][EqNext]_vars

(* ---------------------------------------------------------------------- *)
(* useComposerInsert                                                       *)
(* ---------------------------------------------------------------------- *)

\* "a" stands for a character that /\s/ does not match, " " for one it
\* matches.
Characters == {"a", " "}

\* Every string of at most n characters.
RECURSIVE Strings(_)
Strings(n) ==
    IF n = 0
    THEN {EmptyString}
    ELSE LET shorter == Strings(n - 1)
         IN  shorter \cup
             { Append(string, char) :
                 string \in {t \in shorter : Len(t) = n - 1},
                 char \in Characters }

Drafts == Strings(MaxDraftLen)

\* Arguments of the insert callback.
InsertTexts == {EmptyString, <<".">>, <<".", "/">>}

\* selectionStart <= selectionEnd of a textarea.
Selections ==
    { selection \in [selectionStart : 0..MaxDraftLen,
                      selectionEnd : 0..MaxDraftLen] :
        selection.selectionStart <= selection.selectionEnd }

Min(m, n) == IF m <= n THEN m ELSE n

\* String.prototype.slice(from, to) for 0 <= from, 0 <= to.
Slice(string, from, to) ==
    SubSeq(string, Min(from, Len(string)) + 1, Min(to, Len(string)))

\* Mutant of needsSpaceBefore: the last character is not looked at.
needsSpaceBeforeNonEmpty(before) == Len(before) > 0

\* before.length > 0 && !/\s$/.test(before)
needsSpaceBefore(before) ==
    Len(before) > 0 /\ ~IsWhitespace(before[Len(before)])

\* after.length > 0 && !/^\s/.test(after)
needsSpaceAfter(after) == Len(after) > 0 /\ ~IsWhitespace(after[1])

\* Mutants of Deps: isEnabled is left out; draftText is added.
DepsWithoutIsEnabled(enabled, draft) == <<"onDraftChange", "textareaRef">>

DepsWithDraftText(enabled, draft) ==
    <<enabled, draft, "onDraftChange", "textareaRef">>

\* The dependency list of useCallback in a render with these props; the
\* onDraftChange function and the textareaRef object stay the same.
Deps(enabled, draft) == <<enabled, "onDraftChange", "textareaRef">>

InsertStep(kind, insertText, calls, scheduled, recreated) ==
    [kind |-> kind, text |-> insertText, calls |-> calls,
     scheduled |-> scheduled, recreated |-> recreated]

\* The parent renders the hook with these props; the commit runs the
\* effect that stores draftText in draftTextRef.
Render(kind, enabled, draft) ==
    LET changed == Deps(enabled, draft) # Deps(isEnabled, draftText)
    IN  /\ isEnabled' = enabled
        /\ draftText' = draft
        /\ draftTextRef' = draft
        /\ insertCallback' =
               IF changed
               THEN [isEnabled |-> enabled, draftText |-> draft]
               ELSE insertCallback
        /\ insertLast' = InsertStep(kind, EmptyString, <<>>, FALSE, changed)
        /\ UNCHANGED <<textareaRef, animationFrame>>
        /\ UNCHANGED <<gitVars, eqVars, configVars, autocompleteVars>>

\* The draft changes, nothing else.
SetDraftText(draft) ==
    /\ draft # draftText
    /\ Render("draft", isEnabled, draft)

\* isEnabled changes, nothing else.
SetIsEnabled ==
    Render("enabled", ~isEnabled, draftText)

\* The textarea is mounted or unmounted, or the user moves its selection.
SetTextarea(node) ==
    /\ node # textareaRef
    /\ textareaRef' = node
    /\ insertLast' = InsertStep("textarea", EmptyString, <<>>, FALSE, FALSE)
    /\ UNCHANGED <<isEnabled, draftText, draftTextRef, insertCallback,
                   animationFrame>>
    /\ UNCHANGED <<gitVars, eqVars, configVars, autocompleteVars>>

\* The caller invokes the callback the hook returned last.
Insert(insertText) ==
    /\ IF ~insertCallback.isEnabled
       THEN /\ insertLast' =
                   InsertStep("insert", insertText, <<>>, FALSE, FALSE)
            /\ UNCHANGED animationFrame
       ELSE LET textarea == textareaRef
                currentText == draftTextRef
                start == IF textarea # None THEN textarea[1].selectionStart
                         ELSE Len(currentText)
                end == IF textarea # None THEN textarea[1].selectionEnd
                       ELSE start
                before == Slice(currentText, 0, start)
                after == Slice(currentText, end, Len(currentText))
                prefix == IF needsSpaceBefore(before) THEN <<" ">>
                          ELSE EmptyString
                suffix == IF needsSpaceAfter(after) THEN <<" ">>
                          ELSE EmptyString
                nextText == before \o prefix \o insertText \o suffix \o after
                cursor == Len(before) + Len(prefix) + Len(insertText)
                          + (IF needsSpaceAfter(after) THEN 1 ELSE 0)
            IN  /\ insertLast' =
                       InsertStep("insert", insertText, <<nextText>>, TRUE,
                                  FALSE)
                /\ animationFrame' = Some(cursor)
    /\ UNCHANGED <<isEnabled, draftText, draftTextRef, textareaRef,
                   insertCallback>>
    /\ UNCHANGED <<gitVars, eqVars, configVars, autocompleteVars>>

\* The browser runs the registered animation-frame callbacks.
RunAnimationFrame ==
    /\ animationFrame # None
    /\ animationFrame' = None
    /\ textareaRef' =
           IF textareaRef = None
           THEN None
           ELSE Some([selectionStart |-> animationFrame[1],
                      selectionEnd |-> animationFrame[1]])
    /\ insertLast' = InsertStep("frame", EmptyString, <<>>, FALSE, FALSE)
    /\ UNCHANGED <<isEnabled, draftText, draftTextRef, insertCallback>>
    /\ UNCHANGED <<gitVars, eqVars, configVars, autocompleteVars>>

\* The state after the first render and its effect.
InsertInit ==
    /\ isEnabled \in BOOLEAN
    /\ draftText \in Drafts
    /\ draftTextRef = draftText
    /\ textareaRef \in {None} \cup {Some(selection) : selection \in Selections}
    /\ insertCallback = [isEnabled |-> isEnabled, draftText |-> draftText]
    /\ animationFrame = None
    /\ insertLast = InsertStep("mount", EmptyString, <<>>, FALSE, FALSE)
    /\ Mounted(NoWorkspace)
    /\ EqIdle
    /\ ConfigIdle
    /\ AutocompleteIdle

InsertNext ==
    \/ \E draft \in Drafts : SetDraftText(draft)
    \/ SetIsEnabled
    \/ \E node \in {None} \cup {Some(selection) : selection \in Selections} :
           SetTextarea(node)
    \/ \E insertText \in InsertTexts : Insert(insertText)
    \/ RunAnimationFrame

InsertSpec == InsertInit /\ [][InsertNext]_vars

(* ---------------------------------------------------------------------- *)
(* useGlobalCodexConfigToml                                                *)
(* ---------------------------------------------------------------------- *)

\* Contents of config.toml and of the editor.
Contents == {"", "model = 1", "model = 2"}

\* What readGlobalCodexConfigToml may resolve with.
Responses == [content : Contents, exists : BOOLEAN, truncated : BOOLEAN]

\* The messages a read or a write may reject with.
ConfigMessages == {"permission denied"}

\* useMemo(() => state.content !== lastLoadedContentRef.current,
\* [state.content]) in the render that follows a setState call: computed
\* again when state.content changed, else the value of the render before.
MemoIsDirty(nextState, loaded) ==
    IF nextState.content # configState.content
    THEN nextState.content # loaded
    ELSE isDirty

\* Mutant of ConfigRefresh: inFlightRef is not consulted.
ConfigRefreshUnguarded ==
    /\ configRequestIdRef < MaxConfigRequestId
    /\ inFlightRef' = TRUE
    /\ configRequestIdRef' = configRequestIdRef + 1
    /\ configState' = [configState EXCEPT !.isLoading = TRUE, !.error = None]
    /\ reads' = reads \cup {configRequestIdRef + 1}
    /\ isDirty' = MemoIsDirty(configState', lastLoadedContentRef)
    /\ configLast' = ConfigStep("refresh", configRequestIdRef + 1, TRUE, None)
    /\ UNCHANGED <<lastLoadedContentRef, writes>>
    /\ UNCHANGED <<gitVars, eqVars, insertVars, autocompleteVars>>

\* The caller invokes refresh().
ConfigRefresh ==
    /\ IF inFlightRef
       THEN /\ configLast' =
                   ConfigStep("refresh", configRequestIdRef, FALSE, None)
            /\ UNCHANGED <<configState, configRequestIdRef, inFlightRef,
                           reads, isDirty>>
       ELSE /\ configRequestIdRef < MaxConfigRequestId
            /\ inFlightRef' = TRUE
            /\ configRequestIdRef' = configRequestIdRef + 1
            /\ configState' =
                   [configState EXCEPT !.isLoading = TRUE, !.error = None]
            /\ reads' = reads \cup {configRequestIdRef + 1}
            /\ isDirty' = MemoIsDirty(configState', lastLoadedContentRef)
            /\ configLast' =
                   ConfigStep("refresh", configRequestIdRef + 1, TRUE, None)
    /\ UNCHANGED <<lastLoadedContentRef, writes>>
    /\ UNCHANGED <<gitVars, eqVars, insertVars, autocompleteVars>>

\* readGlobalCodexConfigToml resolves with response: refresh() continues
\* after its await, then its finally block runs.
ReadResolve(requestId, response) ==
    /\ requestId \in reads
    /\ reads' = reads \ {requestId}
    /\ inFlightRef' = FALSE
    /\ IF requestId # configRequestIdRef
       THEN /\ configLast' = ConfigStep("read resolve", requestId, FALSE, None)
            /\ UNCHANGED <<configState, lastLoadedContentRef, isDirty>>
       ELSE /\ lastLoadedContentRef' = response.content
            /\ configState' =
                   [content |-> response.content, exists |-> response.exists,
                    truncated |-> response.truncated, isLoading |-> FALSE,
                    isSaving |-> FALSE, error |-> None]
            /\ isDirty' = MemoIsDirty(configState', lastLoadedContentRef')
            /\ configLast' = ConfigStep("read resolve", requestId, TRUE, None)
    /\ UNCHANGED <<configRequestIdRef, writes>>
    /\ UNCHANGED <<gitVars, eqVars, insertVars, autocompleteVars>>

\* readGlobalCodexConfigToml rejects: the catch block of refresh(), then
\* its finally block.
ReadReject(requestId, message) ==
    /\ requestId \in reads
    /\ reads' = reads \ {requestId}
    /\ inFlightRef' = FALSE
    /\ IF requestId # configRequestIdRef
       THEN /\ configLast' = ConfigStep("read reject", requestId, FALSE, None)
            /\ UNCHANGED <<configState, isDirty>>
       ELSE /\ configState' = [configState EXCEPT !.isLoading = FALSE,
                                                  !.error = Some(message)]
            /\ isDirty' = MemoIsDirty(configState', lastLoadedContentRef)
            /\ configLast' =
                   ConfigStep("read reject", requestId, TRUE,
                              Some("Couldn't load global config.toml"))
    /\ UNCHANGED <<lastLoadedContentRef, configRequestIdRef, writes>>
    /\ UNCHANGED <<gitVars, eqVars, insertVars, autocompleteVars>>

\* The caller invokes the save() of the current render.
ConfigSave ==
    /\ configRequestIdRef < MaxConfigRequestId
    /\ configRequestIdRef' = configRequestIdRef + 1
    /\ writes' = writes \cup {[requestId |-> configRequestIdRef + 1,
                                content |-> configState.content]}
    /\ configState' = [configState EXCEPT !.isSaving = TRUE, !.error = None]
    /\ isDirty' = MemoIsDirty(configState', lastLoadedContentRef)
    /\ configLast' = ConfigStep("save", configRequestIdRef + 1, TRUE, None)
    /\ UNCHANGED <<lastLoadedContentRef, inFlightRef, reads>>
    /\ UNCHANGED <<gitVars, eqVars, insertVars, autocompleteVars>>

\* Mutant of WriteResolve: the request number is not compared.
WriteResolveUnguarded(write) ==
    /\ write \in writes
    /\ writes' = writes \ {write}
    /\ lastLoadedContentRef' = write.content
    /\ configState' =
           [configState EXCEPT !.exists = TRUE, !.truncated = FALSE,
                               !.isSaving = FALSE, !.error = None]
    /\ isDirty' = MemoIsDirty(configState', lastLoadedContentRef')
    /\ configLast' =
           ConfigStep("write resolve", write.requestId,
                      write.requestId = configRequestIdRef, None)
    /\ UNCHANGED <<configRequestIdRef, inFlightRef, reads>>
    /\ UNCHANGED <<gitVars, eqVars, insertVars, autocompleteVars>>

\* writeGlobalCodexConfigToml resolves: save() continues after its await.
WriteResolve(write) ==
    /\ write \in writes
    /\ writes' = writes \ {write}
    /\ IF write.requestId # configRequestIdRef
       THEN /\ configLast' =
                   ConfigStep("write resolve", write.requestId, FALSE, None)
            /\ UNCHANGED <<configState, lastLoadedContentRef, isDirty>>
       ELSE /\ lastLoadedContentRef' = write.content
            /\ configState' =
                   [configState EXCEPT !.exists = TRUE, !.truncated = FALSE,
                                       !.isSaving = FALSE, !.error = None]
            /\ isDirty' = MemoIsDirty(configState', lastLoadedContentRef')
            /\ configLast' =
                   ConfigStep("write resolve", write.requestId, TRUE, None)
    /\ UNCHANGED <<configRequestIdRef, inFlightRef, reads>>
    /\ UNCHANGED <<gitVars, eqVars, insertVars, autocompleteVars>>

\* writeGlobalCodexConfigToml rejects: the catch block of save().
WriteReject(write, message) ==
    /\ write \in writes
    /\ writes' = writes \ {write}
    /\ IF write.requestId # configRequestIdRef
       THEN /\ configLast' =
                   ConfigStep("write reject", write.requestId, FALSE, None)
            /\ UNCHANGED <<configState, isDirty>>
       ELSE /\ configState' = [configState EXCEPT !.isSaving = FALSE,
                                                  !.error = Some(message)]
            /\ isDirty' = MemoIsDirty(configState', lastLoadedContentRef)
            /\ configLast' =
                   ConfigStep("write reject", write.requestId, TRUE,
                              Some("Couldn't save global config.toml"))
    /\ UNCHANGED <<lastLoadedContentRef, configRequestIdRef, inFlightRef,
                   reads>>
    /\ UNCHANGED <<gitVars, eqVars, insertVars, autocompleteVars>>

\* The caller invokes setContent(value).
SetContent(value) ==
    /\ configState' = [configState EXCEPT !.content = value]
    /\ isDirty' = MemoIsDirty(configState', lastLoadedContentRef)
    /\ configLast' = ConfigStep("setContent", configRequestIdRef, FALSE, None)
    /\ UNCHANGED <<lastLoadedContentRef, configRequestIdRef, inFlightRef,
                   reads, writes>>
    /\ UNCHANGED <<gitVars, eqVars, insertVars, autocompleteVars>>

\* The state after the first render and its effect, which calls refresh().
ConfigInit ==
    /\ configState = [EMPTY_STATE EXCEPT !.isLoading = TRUE]
    /\ lastLoadedContentRef = ""
    /\ configRequestIdRef = 1
    /\ inFlightRef = TRUE
    /\ reads = {1}
    /\ writes = {}
    /\ isDirty = FALSE
    /\ configLast = ConfigStep("mount", 1, TRUE, None)
    /\ Mounted(NoWorkspace)
    /\ EqIdle
    /\ InsertIdle
    /\ AutocompleteIdle

ConfigNext ==
    \/ ConfigRefresh
    \/ ConfigSave
    \/ \E value \in Contents : SetContent(value)
    \/ \E requestId \in reads, response \in Responses :
           ReadResolve(requestId, response)
    \/ \E requestId \in reads, message \in ConfigMessages :
           ReadReject(requestId, message)
    \/ \E write \in writes : WriteResolve(write)
    \/ \E write \in writes, message \in ConfigMessages :
           WriteReject(write, message)

ConfigSpec == ConfigInit /\ [][ConfigNext]_vars

(* ---------------------------------------------------------------------- *)
(* useComposerAutocomplete                                                 *)
(* ---------------------------------------------------------------------- *)

\* Characters of the composer text: the trigger character, a letter in
\* upper case and a whitespace character.
TextCharacters == {"@", "A", " "}

\* Labels of the items, as sequences of characters.
Labels == {<<"a", "b">>, <<"b", "a">>, <<"A", "b">>, <<"b">>}

\* AutocompleteItem: of its fields the hook reads label only.
Items == {[label |-> label] : label \in Labels}

\* The trigger character of the one entry that is given.
TriggerCharacter == "@"

\* Values of the maxResults prop; 8 is its default.
MaxResultsValues == {-1, 1, 8}

\* Arguments of moveHighlight.
Deltas == {-1, 1}

\* a % b of JavaScript for b > 0: the sign of the result is that of a.
Remainder(a, b) == IF a >= 0 THEN a % b ELSE 0 - ((0 - a) % b)

Max(m, n) == IF m >= n THEN m ELSE n

\* Walks left from the 0-based index while the character there is no
\* whitespace; text[index] past the end is undefined, which is none.
RECURSIVE TokenScan(_, _)
TokenScan(string, index) ==
    IF index >= 0 /\ (index >= Len(string) \/ ~IsWhitespace(string[index + 1]))
    THEN TokenScan(string, index - 1)
    ELSE index

getTokenStart(string, cursor) == TokenScan(string, cursor - 1) + 1

\* Array.prototype.find on the trigger list: the first entry of the
\* character, None for undefined.
RECURSIVE FindTrigger(_, _)
FindTrigger(triggerList, triggerChar) ==
    IF triggerList = <<>>
    THEN None
    ELSE IF Head(triggerList).trigger = triggerChar
         THEN Some(Head(triggerList))
         ELSE FindTrigger(Tail(triggerList), triggerChar)

InactiveState ==
    [active |-> FALSE, trigger |-> None, query |-> EmptyString,
     range |-> None]

resolveAutocompleteState(string, cursor, triggerList) ==
    LET tokenStart == getTokenStart(string, cursor)
    IN  IF tokenStart >= Len(string)
        THEN InactiveState
        ELSE LET triggerChar == string[tokenStart + 1]
             IN  IF FindTrigger(triggerList, triggerChar) = None
                 THEN InactiveState
                 ELSE [active |-> TRUE,
                       trigger |-> Some(triggerChar),
                       query |-> Slice(string, tokenStart + 1, cursor),
                       range |-> Some([start |-> tokenStart + 1,
                                       end |-> cursor])]

\* The memo `state` of a render with the given props.
StateOf(string, selection, triggerList) ==
    IF selection = None \/ selection[1] < 0
    THEN InactiveState
    ELSE resolveAutocompleteState(string, selection[1], triggerList)

state == StateOf(text, selectionStart, triggers)

\* String.prototype.toLowerCase on the characters in use.
LowerCharacter(character) == IF character = "A" THEN "a" ELSE character

RECURSIVE toLowerCase(_)
toLowerCase(string) ==
    IF string = <<>>
    THEN <<>>
    ELSE <<LowerCharacter(Head(string))>> \o toLowerCase(Tail(string))

\* query.trim().toLowerCase()
Normalized(query) == toLowerCase(Trim(query))

\* String.prototype.includes
includes(string, part) ==
    \E offset \in 0..(Len(string) - Len(part)) :
        SubSeq(string, offset + 1, offset + Len(part)) = part

\* String.prototype.startsWith
startsWith(string, part) ==
    /\ Len(part) <= Len(string)
    /\ SubSeq(string, 1, Len(part)) = part

filterItems(items, query) ==
    LET normalized == Normalized(query)
        Keeps(item) == includes(toLowerCase(item.label), normalized)
    IN  IF normalized = EmptyString
        THEN items
        ELSE SelectSeq(items, Keeps)

\* Collation rank of a lower-case character.
CharacterRank(character) ==
    CASE character = "a" -> 1
      [] character = "b" -> 2
      [] OTHER -> 0

\* String.prototype.localeCompare on lower-case labels: -1, 0 or 1.
RECURSIVE localeCompare(_, _)
localeCompare(left, right) ==
    IF left = <<>> /\ right = <<>> THEN 0
    ELSE IF left = <<>> THEN -1
    ELSE IF right = <<>> THEN 1
    ELSE IF CharacterRank(Head(left)) < CharacterRank(Head(right)) THEN -1
    ELSE IF CharacterRank(Head(left)) > CharacterRank(Head(right)) THEN 1
    ELSE localeCompare(Tail(left), Tail(right))

\* The comparator sortItems hands to Array.prototype.sort.
CompareItems(a, b, normalized) ==
    LET aLabel == toLowerCase(a.label)
        bLabel == toLowerCase(b.label)
        aStarts == startsWith(aLabel, normalized)
        bStarts == startsWith(bLabel, normalized)
    IN  IF aStarts # bStarts
        THEN IF aStarts THEN -1 ELSE 1
        ELSE localeCompare(aLabel, bLabel)

\* Array.prototype.sort is stable: an item goes behind every item that
\* does not compare greater than it.
RECURSIVE InsertSorted(_, _, _)
InsertSorted(sorted, item, normalized) ==
    IF sorted = <<>> \/ CompareItems(sorted[Len(sorted)], item, normalized) <= 0
    THEN Append(sorted, item)
    ELSE Append(InsertSorted(SubSeq(sorted, 1, Len(sorted) - 1), item,
                             normalized),
                sorted[Len(sorted)])

RECURSIVE StableSort(_, _)
StableSort(items, normalized) ==
    IF items = <<>>
    THEN <<>>
    ELSE InsertSorted(StableSort(SubSeq(items, 1, Len(items) - 1), normalized),
                      items[Len(items)], normalized)

sortItems(items, query) ==
    LET normalized == Normalized(query)
    IN  IF normalized = EmptyString
        THEN items
        ELSE StableSort(items, normalized)

\* Mutant of matches: the list is cut before it is ranked.
matchesCutFirst ==
    IF ~state.active \/ state.trigger = None
    THEN <<>>
    ELSE LET source == FindTrigger(triggers, state.trigger[1])
         IN  IF source = None
             THEN <<>>
             ELSE sortItems(Slice(filterItems(source[1].items, state.query),
                                  0, Max(0, maxResults)),
                            state.query)

\* The memo `matches` of the committed render.
matches ==
    IF ~state.active \/ state.trigger = None
    THEN <<>>
    ELSE LET source == FindTrigger(triggers, state.trigger[1])
         IN  IF source = None
             THEN <<>>
             ELSE Slice(sortItems(filterItems(source[1].items, state.query),
                                  state.query),
                        0, Max(0, maxResults))

\* The `active` field the hook returns.
active == state.active /\ Len(matches) > 0 /\ ~dismissed

\* The dependency list of the effect, of a render with the given props.
EffectDeps(string, selection, triggerList) ==
    LET resolved == StateOf(string, selection, triggerList)
    IN  <<resolved.active, resolved.query, resolved.trigger,
          IF resolved.range = None THEN None
                                   ELSE Some(resolved.range[1].start),
          IF resolved.range = None THEN None
                                   ELSE Some(resolved.range[1].end)>>

\* History: the trigger, the query and the token range of a render.
TokenOf(string, selection, triggerList) ==
    LET resolved == StateOf(string, selection, triggerList)
    IN  [trigger |-> resolved.trigger, query |-> resolved.query,
         range |-> resolved.range]

\* The parent renders the hook with other props; the effect runs when one
\* of its dependencies differs from that of the render before.
Rerender(nextText, nextSelectionStart, nextTriggers) ==
    /\ text' = nextText
    /\ selectionStart' = nextSelectionStart
    /\ triggers' = nextTriggers
    /\ IF EffectDeps(nextText, nextSelectionStart, nextTriggers)
              # EffectDeps(text, selectionStart, triggers)
       THEN /\ highlightIndex' = 0
            /\ dismissed' = FALSE
       ELSE UNCHANGED <<highlightIndex, dismissed>>
    /\ closedAt' =
           IF /\ closedAt # None
              /\ TokenOf(nextText, nextSelectionStart, nextTriggers)
                     = closedAt[1]
           THEN closedAt
           ELSE None
    /\ UNCHANGED maxResults
    /\ UNCHANGED <<gitVars, eqVars, insertVars, configVars>>

\* A character is typed at the cursor.
TypeCharacter(character) ==
    /\ selectionStart # None
    /\ Len(text) < MaxTextLen
    /\ Rerender(SubSeq(text, 1, selectionStart[1]) \o <<character>>
                    \o SubSeq(text, selectionStart[1] + 1, Len(text)),
                Some(selectionStart[1] + 1), triggers)

\* The character before the cursor is deleted.
DeleteBackward ==
    /\ selectionStart # None
    /\ selectionStart[1] > 0
    /\ Rerender(SubSeq(text, 1, selectionStart[1] - 1)
                    \o SubSeq(text, selectionStart[1] + 1, Len(text)),
                Some(selectionStart[1] - 1), triggers)

\* The cursor is put elsewhere, or the textarea loses it.
SetSelectionStart(nextSelectionStart) ==
    /\ nextSelectionStart # selectionStart
    /\ Rerender(text, nextSelectionStart, triggers)

\* The item list without the item at the index.
RemoveAt(items, index) ==
    SubSeq(items, 1, index - 1) \o SubSeq(items, index + 1, Len(items))

\* The trigger lists one change away: the entry comes or goes, an item
\* is added to its list or taken from it.
TriggerChanges(triggerList) ==
    IF triggerList = <<>>
    THEN {<<[trigger |-> TriggerCharacter, items |-> <<>>]>>}
    ELSE LET items == triggerList[1].items
         IN  {<<>>}
             \cup { <<[trigger |-> TriggerCharacter,
                       items |-> Append(items, item)]>> :
                      item \in {i \in Items : Len(items) < MaxItems} }
             \cup { <<[trigger |-> TriggerCharacter,
                       items |-> RemoveAt(items, index)]>> :
                      index \in 1..Len(items) }

\* The parent passes another trigger list.
SetTriggers(nextTriggers) ==
    /\ nextTriggers \in TriggerChanges(triggers)
    /\ Rerender(text, selectionStart, nextTriggers)

\* The caller invokes moveHighlight(delta).
MoveHighlight(delta) ==
    /\ IF Len(matches) = 0
       THEN UNCHANGED highlightIndex
       ELSE highlightIndex' =
                Remainder(highlightIndex + delta + Len(matches), Len(matches))
    /\ UNCHANGED <<text, selectionStart, triggers, maxResults, dismissed,
                   closedAt>>
    /\ UNCHANGED <<gitVars, eqVars, insertVars, configVars>>

\* The caller invokes close().
Close ==
    /\ highlightIndex' = 0
    /\ dismissed' = TRUE
    /\ closedAt' = Some(TokenOf(text, selectionStart, triggers))
    /\ UNCHANGED <<text, selectionStart, triggers, maxResults>>
    /\ UNCHANGED <<gitVars, eqVars, insertVars, configVars>>

\* The hook is mounted with an empty composer and no trigger; the effect
\* of the first render has run.
AutocompleteInit ==
    /\ text = EmptyString
    /\ selectionStart = None
    /\ triggers = <<>>
    /\ maxResults \in MaxResultsValues
    /\ highlightIndex = 0
    /\ dismissed = FALSE
    /\ closedAt = None
    /\ Mounted(NoWorkspace)
    /\ EqIdle
    /\ InsertIdle
    /\ ConfigIdle

AutocompleteNext ==
    \/ \E character \in TextCharacters : TypeCharacter(character)
    \/ DeleteBackward
    \/ \E nextSelectionStart \in
              {None} \cup {Some(cursor) : cursor \in 0..Len(text)} :
           SetSelectionStart(nextSelectionStart)
    \/ \E nextTriggers \in TriggerChanges(triggers) : SetTriggers(nextTriggers)
    \/ \E delta \in Deltas : MoveHighlight(delta)
    \/ Close

AutocompleteSpec == AutocompleteInit /\ [][AutocompleteNext]_vars

(* ---------------------------------------------------------------------- *)
(* Vocabulary of the properties                                            *)
(* ---------------------------------------------------------------------- *)

\* The step settles the pending promise request.
Settles(request) == request \in inFlight /\ request \notin inFlight'

\* The step changes something a caller can see or a later step reads.
ChangesView == status' # status \/ cachedStatusRef' # cachedStatusRef

\* At settlement time request is the latest request and is addressed to
\* the active workspace.
Valid(request) ==
    /\ request.requestId = requestIdRef
    /\ request.workspaceId = workspaceId

\* A branch name that is neither empty nor "unknown".
Known(branchName) == branchName # EmptyString /\ branchName # Unknown

\* An incoming branch name that is missing, empty or "unknown".
NotKnownIncoming(incoming) ==
    incoming = None \/ incoming[1] = EmptyString \/ incoming[1] = Unknown

SettledLast == last.kind \in {"resolve", "reject"}

(* ---------------------------------------------------------------------- *)
(* C1                                                                      *)
(* ---------------------------------------------------------------------- *)

\* C1: a settlement (success or failure) changes the displayed status or
\* the cache only if its request number equals the request counter and its
\* workspace is the active workspace; of two pending fetches for the same
\* workspace the one issued earlier never changes anything.
C1_StaleNeverApplied ==
    [][\A request \in inFlight :
          (Settles(request) /\ ChangesView) =>
              /\ Valid(request)
              /\ ~\E later \in inFlight :
                     /\ later.workspaceId = request.workspaceId
                     /\ later.requestId > request.requestId]_vars

\* An earlier fetch for the active workspace has just settled while a later
\* fetch for it is still pending, and was dropped.
C1_Witness ==
    /\ SettledLast
    /\ ~last.applied
    /\ last.workspaceId = workspaceId
    /\ \E later \in inFlight :
           /\ later.workspaceId = last.workspaceId
           /\ later.requestId > last.requestId

(* ---------------------------------------------------------------------- *)
(* C2                                                                      *)
(* ---------------------------------------------------------------------- *)

\* C2: the settlement (success or failure) of a fetch that was pending
\* when the active workspace changed (to another workspace, to none, or
\* away and back) leaves the displayed status and the whole cache as they
\* were.
C2_OvertakenChangesNothing ==
    [][\A request \in inFlight :
          (Settles(request) /\ request \in overtaken) =>
              /\ status' = status
              /\ cachedStatusRef' = cachedStatusRef]_vars

\* A fetch for A that was pending across A -> B -> A has just settled
\* with A active again and a snapshot of A on display.
C2_Witness ==
    /\ SettledLast
    /\ last.overtaken
    /\ last.workspaceId = "A"
    /\ workspaceId = "A"
    /\ requestIdRef >= 5
    /\ "A" \in DOMAIN cachedStatusRef
    /\ status = cachedStatusRef["A"]

(* ---------------------------------------------------------------------- *)
(* C3                                                                      *)
(* ---------------------------------------------------------------------- *)

\* C3: from the step that makes a workspace without cache entry active
\* until a fetch issued for it since then settles, the displayed status is
\* the empty default (so never the snapshot of the workspace shown before).
C3_SwitchHidesStaleData ==
    ( /\ workspaceId \in Workspaces
      /\ workspaceId \notin DOMAIN cachedStatusRef
      /\ ~settledSinceSwitch )
    => status = emptyStatus

\* The switch A -> B has just happened while the snapshot of A, which is
\* not the empty default, was displayed; B has no cache entry.
C3_Witness ==
    /\ last.kind = "switch"
    /\ last.hadSnapshot
    /\ workspaceId = "B"
    /\ "B" \notin DOMAIN cachedStatusRef
    /\ "A" \in DOMAIN cachedStatusRef
    /\ cachedStatusRef["A"] # emptyStatus
    /\ status = emptyStatus

(* ---------------------------------------------------------------------- *)
(* C4                                                                      *)
(* ---------------------------------------------------------------------- *)

\* C4: a change of the active workspace leaves every cache entry as it
\* is, and no step changes the entry of a workspace that is not active;
\* the step that makes a workspace with a cache entry active displays that
\* entry, and it stays displayed until a fetch issued since then settles.
C4_CacheSurvivesSwitch ==
    [][/\ \A w \in DOMAIN cachedStatusRef :
             (w # workspaceId \/ workspaceId' # workspaceId) =>
                 /\ w \in DOMAIN cachedStatusRef'
                 /\ cachedStatusRef'[w] = cachedStatusRef[w]
       /\ ( /\ workspaceId' \in DOMAIN cachedStatusRef'
            /\ ~settledSinceSwitch' )
          => status' = cachedStatusRef'[workspaceId']]_vars

\* The switch back to A has just happened and the snapshot cached for A
\* before it is displayed, the new fetch for A still pending.
C4_Witness ==
    /\ last.kind = "switch"
    /\ last.hadCache
    /\ workspaceId = "A"
    /\ status = cachedStatusRef["A"]
    /\ status # emptyStatus
    /\ Request(requestIdRef, "A") \in inFlight

(* ---------------------------------------------------------------------- *)
(* C5                                                                      *)
(* ---------------------------------------------------------------------- *)

\* C5: when the cache entry of W holds a known branch name, a fetch for
\* W that succeeds with a missing, empty or "unknown" branch name leaves
\* the cached branch name of W, and the one displayed while W is active,
\* at that known name.
C5_StickyBranchName ==
    [][\A request \in inFlight :
          LET w == request.workspaceId IN
          ( /\ Settles(request)
            /\ last'.kind = "resolve"
            /\ last'.data = None \/ NotKnownIncoming(last'.data[1].branchName)
            /\ w \in DOMAIN cachedStatusRef
            /\ Known(cachedStatusRef[w].branchName) )
          => /\ w \in DOMAIN cachedStatusRef'
             /\ cachedStatusRef'[w].branchName = cachedStatusRef[w].branchName
             /\ workspaceId = w =>
                    status'.branchName = cachedStatusRef[w].branchName]_vars

\* A valid fetch has just succeeded with branch name "unknown" for a
\* workspace whose cache entry held "main", and "main" is displayed.
C5_Witness ==
    /\ last.kind = "resolve"
    /\ last.applied
    /\ last.hadCache
    /\ last.data # None
    /\ last.data[1].branchName = Some(Unknown)
    /\ status.branchName = <<"main">>
    /\ cachedStatusRef[last.workspaceId].branchName = <<"main">>

(* ---------------------------------------------------------------------- *)
(* C6                                                                      *)
(* ---------------------------------------------------------------------- *)

\* C6: when W has no cache entry and a valid fetch for W succeeds with
\* branch name "" or "unknown", the displayed and the cached branch name
\* are that incoming value.
C6_NoCacheIncomingBranchUsed ==
    [][\A request \in inFlight :
          LET w == request.workspaceId IN
          ( /\ Settles(request)
            /\ Valid(request)
            /\ last'.kind = "resolve"
            /\ w \notin DOMAIN cachedStatusRef
            /\ last'.data # None
            /\ last'.data[1].branchName \in {Some(EmptyString), Some(Unknown)} )
          => /\ status'.branchName = last'.data[1].branchName[1]
             /\ w \in DOMAIN cachedStatusRef'
             /\ cachedStatusRef'[w].branchName =
                    last'.data[1].branchName[1]]_vars

\* A valid fetch has just succeeded with branch name "unknown" for a
\* workspace without cache entry.
C6_Witness ==
    /\ last.kind = "resolve"
    /\ last.applied
    /\ ~last.hadCache
    /\ last.data # None
    /\ last.data[1].branchName = Some(Unknown)
    /\ status.branchName = Unknown

(* ---------------------------------------------------------------------- *)
(* C7                                                                      *)
(* ---------------------------------------------------------------------- *)

\* C7: when a valid fetch for W fails and W has a cache entry, the
\* displayed status becomes that entry with error set to the failure
\* message, all other fields those of the entry.
C7_FailureKeepsCachedData ==
    [][\A request \in inFlight :
          LET w == request.workspaceId IN
          ( /\ Settles(request)
            /\ Valid(request)
            /\ last'.kind = "reject"
            /\ w \in DOMAIN cachedStatusRef )
          => /\ last'.message # None
             /\ status' = [cachedStatusRef[w] EXCEPT
                               !.error = Some(last'.message[1])]]_vars

\* A valid fetch has just failed with "network down" for a workspace whose
\* cache entry lists files; the files and totals are still displayed.
C7_Witness ==
    /\ last.kind = "reject"
    /\ last.applied
    /\ last.hadCache
    /\ last.message = Some("network down")
    /\ status.error = Some("network down")
    /\ status.files = <<FileB, FileA>>
    /\ status.totalAdditions = 5

(* ---------------------------------------------------------------------- *)
(* C8                                                                      *)
(* ---------------------------------------------------------------------- *)

\* C8: when a valid fetch for W fails and W has no cache entry, the
\* displayed status is the empty default except that branchName is
\* "unknown" and error is the failure message.
C8_FailureWithoutCache ==
    [][\A request \in inFlight :
          LET w == request.workspaceId IN
          ( /\ Settles(request)
            /\ Valid(request)
            /\ last'.kind = "reject"
            /\ w \notin DOMAIN cachedStatusRef )
          => /\ last'.message # None
             /\ status' = [emptyStatus EXCEPT
                               !.branchName = Unknown,
                               !.error = Some(last'.message[1])]]_vars

\* A valid fetch has just failed with "timeout" for a workspace without
\* cache entry.
C8_Witness ==
    /\ last.kind = "reject"
    /\ last.applied
    /\ ~last.hadCache
    /\ last.message = Some("timeout")
    /\ status.branchName = Unknown
    /\ status.error = Some("timeout")
    /\ status.files = <<>>

(* ---------------------------------------------------------------------- *)
(* C9                                                                      *)
(* ---------------------------------------------------------------------- *)

\* C9 as stated: after the first valid settlement for a workspace, success
\* or failure, the workspace has a cache entry.
C9_Original ==
    (SettledLast /\ last.applied) =>
        last.workspaceId \in DOMAIN cachedStatusRef

\* C9 as amended: the cache entry of a workspace is created by the first
\* valid successful settlement for it, and by nothing else; a failure,
\* valid or not, leaves the cache as it is.
C9_CacheCreatedBySuccessOnly ==
    [][/\ \A request \in inFlight :
             ( /\ Settles(request)
               /\ Valid(request)
               /\ last'.kind = "resolve" )
             => request.workspaceId \in DOMAIN cachedStatusRef'
       /\ \A w \in (DOMAIN cachedStatusRef') \ DOMAIN cachedStatusRef :
             /\ last'.kind = "resolve"
             /\ \E request \in inFlight :
                    /\ Settles(request)
                    /\ Valid(request)
                    /\ request.workspaceId = w
       /\ last'.kind = "reject" => cachedStatusRef' = cachedStatusRef]_vars

\* The first valid fetch for a workspace has just succeeded and created
\* its cache entry, after an earlier valid failure had left it without one.
C9_Witness ==
    /\ last.kind = "resolve"
    /\ last.applied
    /\ ~last.hadCache
    /\ last.hadSnapshot
    /\ last.requestId >= 2
    /\ last.workspaceId \in DOMAIN cachedStatusRef

(* ---------------------------------------------------------------------- *)
(* C10                                                                     *)
(* ---------------------------------------------------------------------- *)

\* C10: while no workspace is active no interval is armed and the
\* displayed status is the empty default, whatever settles; a step that
\* leaves no workspace active (a refresh() call, a settlement) issues no
\* fetch and does not advance the request counter.
C10_NoWorkspaceIdle ==
    [][/\ workspaceId' = NoWorkspace =>
             /\ intervals' = NoIntervals
             /\ status' = emptyStatus
       /\ (workspaceId = NoWorkspace /\ workspaceId' = NoWorkspace) =>
             /\ inFlight' \subseteq inFlight
             /\ requestIdRef' = requestIdRef
             /\ status = emptyStatus
             /\ intervals = NoIntervals]_vars

\* With no workspace active, a fetch issued for a workspace that has a
\* non-default cache entry has just settled.
C10_Witness ==
    /\ workspaceId = NoWorkspace
    /\ SettledLast
    /\ last.hadCache
    /\ cachedStatusRef[last.workspaceId] # emptyStatus
    /\ status = emptyStatus
    /\ intervals = NoIntervals

(* ---------------------------------------------------------------------- *)
(* C11                                                                     *)
(* ---------------------------------------------------------------------- *)

\* C11: right after a non-null workspace became active the latest request
\* is a pending fetch for it; in every state the only armed interval is
\* one interval of the active workspace (none after teardown), and a tick
\* issues its fetch for the active workspace, never for a previous one.
C11_ActivationFetchAndOneTimer ==
    /\ (last.kind = "switch" /\ workspaceId # NoWorkspace) =>
           /\ last.requestId = requestIdRef
           /\ Request(requestIdRef, workspaceId) \in inFlight
    /\ \A w \in Workspaces :
           intervals[w] = IF mounted /\ w = workspaceId THEN 1 ELSE 0
    /\ last.kind = "tick" => last.workspaceId = workspaceId

\* After the switch A -> B an interval has just fired and issued a fetch
\* for B.
C11_Witness ==
    /\ last.kind = "tick"
    /\ workspaceId = "B"
    /\ "A" \in DOMAIN cachedStatusRef
    /\ Request(requestIdRef, "B") \in inFlight
    /\ intervals["B"] = 1
    /\ intervals["A"] = 0

(* ---------------------------------------------------------------------- *)
(* C12                                                                     *)
(* ---------------------------------------------------------------------- *)

\* The branch name the sticky rule asks for.
ExpectedBranchName(incoming, cached) ==
    LET given == IF incoming = None THEN EmptyString ELSE Trim(incoming[1])
    IN  IF Known(given) THEN given
        ELSE IF cached # None /\ Known(cached[1].branchName)
             THEN cached[1].branchName
             ELSE given

\* The snapshot a valid success with data asks for.
ExpectedOnSuccess(data, cached) ==
    [branchName |-> ExpectedBranchName(data.branchName, cached),
     files |-> data.files, stagedFiles |-> data.stagedFiles,
     unstagedFiles |-> data.unstagedFiles,
     totalAdditions |-> data.totalAdditions,
     totalDeletions |-> data.totalDeletions,
     error |-> None]

\* The snapshot a valid failure with message asks for.
ExpectedOnFailure(message, cached) ==
    IF cached # None
    THEN [cached[1] EXCEPT !.error = Some(message)]
    ELSE [emptyStatus EXCEPT !.branchName = Unknown, !.error = Some(message)]

\* The step is the settlement of a fetch issued by a step of kind kind
\* right before, and the fetch is valid.
SettlesFetchOf(kind) ==
    /\ last.kind = kind
    /\ last.workspaceId # NoWorkspace
    /\ Request(last.requestId, last.workspaceId) \in inFlight
    /\ Settles(Request(last.requestId, last.workspaceId))
    /\ Valid(Request(last.requestId, last.workspaceId))

\* What a valid settlement does to the displayed status and the cache.
AppliedAsExpected ==
    LET w == last.workspaceId
        cached == IF w \in DOMAIN cachedStatusRef
                  THEN Some(cachedStatusRef[w]) ELSE None
    IN  /\ last'.kind = "resolve" =>
               /\ last'.data # None
               /\ status' = ExpectedOnSuccess(last'.data[1], cached)
               /\ cachedStatusRef' =
                      [k \in DOMAIN cachedStatusRef \cup {w} |->
                          IF k = w THEN status' ELSE cachedStatusRef[k]]
        /\ last'.kind = "reject" =>
               /\ last'.message # None
               /\ status' = ExpectedOnFailure(last'.message[1], cached)
               /\ cachedStatusRef' = cachedStatusRef

\* C12: with W active, a refresh() call issues a new fetch for W in that
\* very step, whatever is pending and without touching the intervals; the
\* settlement of that fetch, if still valid, changes the displayed status
\* and the cache exactly as the settlement of a fetch issued by a tick.
C12_RefreshIndependentOfTimer ==
    [][/\ ( /\ last'.kind = "refresh"
            /\ last' # last
            /\ workspaceId # NoWorkspace )
          => /\ requestIdRef' = requestIdRef + 1
             /\ inFlight' =
                    inFlight \cup {Request(requestIdRef + 1, workspaceId)}
             /\ Request(requestIdRef + 1, workspaceId) \notin inFlight
             /\ intervals' = intervals
       /\ SettlesFetchOf("refresh") => AppliedAsExpected
       /\ SettlesFetchOf("tick") => AppliedAsExpected]_vars

\* The fetch that the refresh() call of the step before had issued, while
\* the fetch of a scheduled poll was pending, has just settled and changed
\* the displayed status.
C12_Witness ==
    /\ SettledLast
    /\ last.afterRefresh
    /\ last.applied
    /\ last.rerender
    /\ last.requestId >= 2
    /\ Request(last.requestId - 1, last.workspaceId) \in inFlight

(* ---------------------------------------------------------------------- *)
(* C13                                                                     *)
(* ---------------------------------------------------------------------- *)

C14_FailureKeepsPolling ==
    [][/\ last'.kind = "reject" =>
             /\ last'.returned = "fulfilled"
             /\ FetchStatusPromise("rejected") = "fulfilled"
       /\ \A request \in inFlight :
             (Settles(request) /\ last'.kind = "reject") =>
                 intervals' = intervals
       /\ ( /\ mounted'
            /\ workspaceId' # NoWorkspace
            /\ status'.error # None )
          => intervals'[workspaceId'] = 1
       /\ ( /\ last'.kind = "tick"
            /\ last' # last
            /\ status.error # None )
          => /\ requestIdRef' = requestIdRef + 1
             /\ inFlight' =
                    inFlight \cup {Request(requestIdRef + 1, workspaceId)}
             /\ Request(requestIdRef + 1, workspaceId) \notin inFlight]_vars

\* While the error of two failed fetches in a row was displayed, a tick
\* has just issued a fetch for the active workspace.
C14_Witness ==
    /\ last.kind = "tick"
    /\ status.error # None
    /\ requestIdRef >= 3
    /\ workspaceId \notin DOMAIN cachedStatusRef
    /\ Request(requestIdRef, workspaceId) \in inFlight
    /\ inFlight = {Request(requestIdRef, workspaceId)}

(* ---------------------------------------------------------------------- *)
(* C15                                                                     *)
(* ---------------------------------------------------------------------- *)

\* C15 as stated: teardown invalidates the fetches in flight, so a
\* settlement after teardown is discarded: its callback returns early,
\* with no cache write and no setStatus call.
C15_Original == (~mounted /\ SettledLast) => ~last.applied

\* C16 (as stated): while a workspace stays active, the interval keeps
\* firing and every fetch completes, the completion of some fetch is
\* eventually applied. The code applies the completion of the newest fetch
\* only, and every tick issues a newer one.
C16_Original == <>(SettledLast /\ last.applied)

(* ---------------------------------------------------------------------- *)
(* C17                                                                     *)
(* ---------------------------------------------------------------------- *)

\* C17: sameStatusState(a, b) is true exactly when a and b have equal
\* branchName, error, totalAdditions and totalDeletions and their files,
\* stagedFiles and unstagedFiles have the same length and, index by index,
\* equal path, status, additions and deletions.  Snapshots and their file
\* entries have no other fields, so this is equality of the two values; a
\* list in another order is another value.
C17_SameStatusStateIsEquality ==
    same # None => (same[1] <=> snapshotA = snapshotB)

\* The order-sensitive case: the two snapshots differ only in the order of
\* their files, and the call returned false.
C17_Witness ==
    /\ same = Some(FALSE)
    /\ Len(snapshotA.files) > 1
    /\ snapshotB = [snapshotA EXCEPT !.files = Reverse(snapshotA.files)]

(* ---------------------------------------------------------------------- *)
(* C18 .. C20                                                              *)
(* ---------------------------------------------------------------------- *)

\* The draft up to position at, and from position at on.
DraftUpTo(at) == [i \in 1..Min(at, Len(draftText)) |-> draftText[i]]

DraftFrom(at) ==
    [i \in 1..(Len(draftText) - Min(at, Len(draftText))) |->
        draftText[Min(at, Len(draftText)) + i]]

\* A single space after a non-empty text that does not end in whitespace.
SpaceAfter(string) ==
    IF string # EmptyString /\ string[Len(string)] # " " THEN <<" ">>
    ELSE EmptyString

\* A single space before a non-empty text that does not start with
\* whitespace.
SpaceBefore(string) ==
    IF string # EmptyString /\ string[1] # " " THEN <<" ">> ELSE EmptyString

\* C18: when enabled, the insert callback called with text t calls
\* onDraftChange exactly once, with before + p + t + s + after: before and
\* after are the current draft split at the selection start and end, p is
\* a single space iff before is non-empty and does not end in whitespace,
\* s a single space iff after is non-empty and does not start with
\* whitespace.
C18_InsertedText ==
    (insertLast.kind = "insert" /\ isEnabled /\ textareaRef # None) =>
        LET before == DraftUpTo(textareaRef[1].selectionStart)
            after == DraftFrom(textareaRef[1].selectionEnd)
        IN  insertLast.calls =
                <<before \o SpaceAfter(before) \o insertLast.text
                  \o SpaceBefore(after) \o after>>

\* An insertion into the middle of a word: both spaces are added.
C18_Witness ==
    /\ insertLast.kind = "insert"
    /\ isEnabled
    /\ textareaRef # None
    /\ draftText = <<"a", "a">>
    /\ textareaRef[1].selectionStart = 1
    /\ textareaRef[1].selectionEnd = 1
    /\ insertLast.calls = <<<<"a", " ", ".", "/", " ", "a">>>>

\* C19: when isEnabled is false, the insert callback never calls
\* onDraftChange and schedules no cursor change, whatever the insert text,
\* the draft and the selection.
C19_DisabledDoesNothing ==
    (insertLast.kind = "insert" /\ ~isEnabled) =>
        /\ insertLast.calls = <<>>
        /\ ~insertLast.scheduled

\* The callback is called while disabled, with a text to insert, a draft
\* and a textarea, after the hook had been enabled.
C19_Witness ==
    /\ insertLast.kind = "insert"
    /\ ~isEnabled
    /\ insertLast.text # EmptyString
    /\ draftText # EmptyString
    /\ textareaRef # None
    /\ animationFrame # None

\* C20: the insert callback is not re-created when only the draft text
\* changes, and an insertion is computed from the most recent draft text:
\* with no textarea mounted the text is appended at the end of that draft.
C20_StableCallbackLatestDraft ==
    /\ insertLast.kind = "draft" => ~insertLast.recreated
    /\ (insertLast.kind = "insert" /\ isEnabled /\ textareaRef = None) =>
           insertLast.calls =
               <<draftText \o SpaceAfter(draftText) \o insertLast.text>>

\* An insertion without a textarea through a callback that was created
\* when the draft was another text.
C20_Witness ==
    /\ insertLast.kind = "insert"
    /\ isEnabled
    /\ textareaRef = None
    /\ insertCallback.draftText # draftText
    /\ insertLast.calls = <<draftText \o SpaceAfter(draftText) \o insertLast.text>>

(* ---------------------------------------------------------------------- *)
(* C22                                                                     *)
(* ---------------------------------------------------------------------- *)

\* The pending promises whose callbacks would pass the guard now.
Eligible ==
    {request \in inFlight : ~IsStale(requestIdRef, workspaceIdRef, request)}

\* C22: in every reachable state at most one outstanding fetch is eligible
\* to be applied, and it is the one whose number is the request counter and
\* whose workspace is the active one.
C22_AtMostOneEligible ==
    /\ Cardinality(Eligible) <= 1
    /\ \A request \in Eligible : Valid(request)

\* Three fetches are outstanding for the active workspace, one of them
\* eligible.
C22_Witness ==
    /\ Cardinality({request \in inFlight :
                       request.workspaceId = workspaceId}) >= 3
    /\ Cardinality(Eligible) = 1

(* ---------------------------------------------------------------------- *)
(* C24                                                                     *)
(* ---------------------------------------------------------------------- *)

\* C24: after a valid success for W is applied the displayed status has no
\* error, carries the fetched files, stagedFiles, unstagedFiles and totals
\* as they came, and the cache entry of W is that snapshot, also when the
\* status displayed before carried an error.
C24_SuccessClearsError ==
    (last.kind = "resolve" /\ last.applied) =>
        /\ last.data # None
        /\ status.error = None
        /\ status.files = last.data[1].files
        /\ status.stagedFiles = last.data[1].stagedFiles
        /\ status.unstagedFiles = last.data[1].unstagedFiles
        /\ status.totalAdditions = last.data[1].totalAdditions
        /\ status.totalDeletions = last.data[1].totalDeletions
        /\ last.workspaceId \in DOMAIN cachedStatusRef
        /\ cachedStatusRef[last.workspaceId] = status

\* A success with files is applied while the failure of an earlier fetch
\* is on display: W had no cache entry, and a status other than the default
\* is then the one a failure builds.
C24_Witness ==
    /\ last.kind = "resolve"
    /\ last.applied
    /\ last.hadSnapshot
    /\ ~last.hadCache
    /\ last.rerender
    /\ status.files # <<>>
    /\ status.error = None

(* ---------------------------------------------------------------------- *)
(* C28                                                                     *)
(* ---------------------------------------------------------------------- *)

\* C28: every cache entry has error = null, and the status displayed right
\* after a workspace became active carries no error.
C28_CacheHasNoError ==
    /\ \A w \in DOMAIN cachedStatusRef : cachedStatusRef[w].error = None
    /\ (last.kind = "switch" /\ workspaceId # NoWorkspace) =>
           status.error = None

\* The cache holds an entry of the active workspace while an error is on
\* display for it.
C28_Witness ==
    /\ workspaceId \in DOMAIN cachedStatusRef
    /\ status.error # None
    /\ cachedStatusRef[workspaceId].error = None

(* ---------------------------------------------------------------------- *)
(* C29                                                                     *)
(* ---------------------------------------------------------------------- *)

\* C29: while W is active and has a cache entry the displayed status is
\* that entry in every field but error; while W is active and has none the
\* displayed status is the default, or the default with branchName
\* "unknown" and an error.
C29_StatusFollowsCache ==
    workspaceId # NoWorkspace =>
        IF workspaceId \in DOMAIN cachedStatusRef
        THEN [status EXCEPT !.error = None] =
                 [cachedStatusRef[workspaceId] EXCEPT !.error = None]
        ELSE \/ status = emptyStatus
             \/ /\ status.error # None
                /\ status = [emptyStatus EXCEPT !.branchName = Unknown,
                                                !.error = status.error]

\* Both cases with an error: the cached entry with an error on it, and
\* ("unknown", error) for a workspace without an entry, are told apart by
\* the cache; here the first, with files.
C29_Witness ==
    /\ workspaceId \in DOMAIN cachedStatusRef
    /\ status.error # None
    /\ status.files # <<>>
    /\ status # cachedStatusRef[workspaceId]

(* ---------------------------------------------------------------------- *)
(* C21                                                                     *)
(* ---------------------------------------------------------------------- *)

\* The step is a tick (every tick changes the history record).
TickStep == last'.kind = "tick" /\ last' # last

\* C21: the request counter never decreases; a fetch that a step issues
\* takes the new value of the counter, which is greater than the old value
\* and than the number of every pending fetch; a change of the active
\* workspace advances the counter; a tick issues exactly one fetch, for
\* the active workspace.
C21_CounterAdvances ==
    [][/\ requestIdRef' >= requestIdRef
       /\ \A request \in inFlight : request.requestId <= requestIdRef
       /\ \A request \in inFlight' \ inFlight :
             /\ request.requestId = requestIdRef'
             /\ requestIdRef' > requestIdRef
       /\ workspaceId' # workspaceId => requestIdRef' > requestIdRef
       /\ TickStep =>
             /\ workspaceId # NoWorkspace
             /\ inFlight' \ inFlight = {Request(requestIdRef', workspaceId)}
             /\ inFlight \subseteq inFlight']_vars

\* A tick has just issued the fetch with the highest number so far while
\* earlier fetches for both workspaces are pending.
C21_Witness ==
    /\ last.kind = "tick"
    /\ last.requestId = requestIdRef
    /\ Request(requestIdRef, workspaceId) \in inFlight
    /\ requestIdRef >= 4
    /\ \A w \in Workspaces : \E request \in inFlight :
           request.workspaceId = w /\ request.requestId < requestIdRef

(* ---------------------------------------------------------------------- *)
(* C25                                                                     *)
(* ---------------------------------------------------------------------- *)

\* The step is an activation of a workspace, a tick or a refresh() call
\* with a workspace bound.
IssuingStep ==
    /\ last' # last
    /\ last'.kind \in {"switch", "tick", "refresh"}
    /\ last'.workspaceId # NoWorkspace

\* C25: a completion issues no fetch and leaves the counter alone; a step
\* issues a fetch, and then exactly one, exactly when it is the activation
\* of a workspace, a tick, or a refresh() call with a workspace bound.
C25_CompletionIssuesNothing ==
    [][/\ (\E request \in inFlight : Settles(request)) =>
             /\ inFlight' \subseteq inFlight
             /\ requestIdRef' = requestIdRef
       /\ Cardinality(inFlight' \ inFlight) =
             IF IssuingStep THEN 1 ELSE 0]_vars

\* A failure has been applied and nothing is pending: the next fetch is
\* left to the interval or the caller.
C25_Witness ==
    /\ last.kind = "reject"
    /\ last.applied
    /\ inFlight = {}
    /\ status.error # None
    /\ intervals[workspaceId] = 1

(* ---------------------------------------------------------------------- *)
(* C26                                                                     *)
(* ---------------------------------------------------------------------- *)

\* C26: no step removes a cache entry.
C26_CacheOnlyGrows ==
    [][DOMAIN cachedStatusRef \subseteq DOMAIN cachedStatusRef']_vars

\* A success has been stored for the second workspace while the entry of
\* the first is still there.
C26_Witness ==
    /\ last.kind = "resolve"
    /\ last.applied
    /\ ~last.hadCache
    /\ DOMAIN cachedStatusRef = Workspaces

(* ---------------------------------------------------------------------- *)
(* C23                                                                     *)
(* ---------------------------------------------------------------------- *)

\* C23: the numbers of the requests whose completions are applied increase
\* strictly: a completion that is applied belongs to a request with a
\* higher number than the one applied before it.
C23_AppliedInIncreasingOrder ==
    [][\A request \in inFlight :
          (Settles(request) /\ last'.applied) =>
              /\ request.requestId > last.appliedId
              /\ last'.appliedId = request.requestId]_vars

\* A fetch for the active workspace completes after a fetch with a higher
\* number has been applied, and is dropped.
C23_Witness ==
    /\ SettledLast
    /\ ~last.applied
    /\ last.workspaceId = workspaceId
    /\ last.appliedId > last.requestId
    /\ last.appliedId = requestIdRef

(* ---------------------------------------------------------------------- *)
(* C27                                                                     *)
(* ---------------------------------------------------------------------- *)

\* The step is a call of a refresh handle of an earlier render.
StaleRefreshStep == last'.kind = "stale refresh" /\ last' # last

\* C27 (as stated): calling a refresh handle obtained while A was active,
\* after B became active, changes neither the displayed status nor the
\* cache, nor does the completion of the fetch it issues, and the fetch of
\* B that was eligible before the call is still eligible after it.  The
\* call takes the next number of the one counter, which makes the pending
\* fetch of B stale.
C27_Original ==
    [][/\ StaleRefreshStep =>
             /\ status' = status
             /\ cachedStatusRef' = cachedStatusRef
             /\ \A request \in inFlight :
                    ~IsStale(requestIdRef, workspaceIdRef, request) =>
                        ~IsStale(requestIdRef', workspaceIdRef', request)
       /\ \A request \in inFlight :
             (Settles(request) /\ request.workspaceId # workspaceId) =>
                 /\ status' = status
                 /\ cachedStatusRef' = cachedStatusRef]_vars

(* ---------------------------------------------------------------------- *)
(* C30                                                                     *)
(* ---------------------------------------------------------------------- *)

\* C30 (as stated): in any state where no read and no write is
\* outstanding, isLoading and isSaving are both false.  A completion that
\* a later refresh() or save() has superseded returns without clearing the
\* flag its own call had set.
C30_Original ==
    (reads = {} /\ writes = {}) =>
        /\ ~configState.isLoading
        /\ ~configState.isSaving

(* ---------------------------------------------------------------------- *)
(* C31                                                                     *)
(* ---------------------------------------------------------------------- *)

\* C31 (as stated): isDirty is true exactly when the current content
\* differs from the content last loaded or last successfully saved.  The
\* memo is computed again only when state.content changes, so a save or a
\* load that moves the baseline onto the current content leaves it true.
C31_Original == isDirty <=> configState.content # lastLoadedContentRef

(* ---------------------------------------------------------------------- *)
(* C32                                                                     *)
(* ---------------------------------------------------------------------- *)

\* The step is a refresh() call.
ConfigRefreshStep == configLast'.kind = "refresh" /\ configLast' # configLast

\* C32: at most one read is outstanding, and inFlightRef tells whether one
\* is, so that refresh() is accepted once the read has completed, however
\* it completed; refresh() called while a read is outstanding issues no
\* read, leaves the request counter alone and changes no state.
C32_OneReadAtATime ==
    [][/\ Cardinality(reads) <= 1
       /\ inFlightRef <=> reads # {}
       /\ \A requestId \in reads :
             requestId \notin reads' => ~inFlightRef'
       /\ (configLast'.kind = "refresh" /\ reads # {}) =>
             UNCHANGED <<configState, lastLoadedContentRef,
                         configRequestIdRef, inFlightRef, reads, writes,
                         isDirty>>
       /\ (ConfigRefreshStep /\ reads = {}) =>
             /\ reads' = {configRequestIdRef'}
             /\ configRequestIdRef' = configRequestIdRef + 1]_vars

\* refresh() has been accepted after the read before it completed
\* superseded by a save().
C32_Witness ==
    /\ configLast.kind = "refresh"
    /\ configLast.applied
    /\ reads = {configRequestIdRef}
    /\ configRequestIdRef >= 3
    /\ writes # {}
    /\ configState.isSaving

(* ---------------------------------------------------------------------- *)
(* C33                                                                     *)
(* ---------------------------------------------------------------------- *)

\* What a superseded completion must leave alone.
ConfigKept ==
    /\ configState'.content = configState.content
    /\ configState'.exists = configState.exists
    /\ configState'.truncated = configState.truncated
    /\ configState'.error = configState.error
    /\ lastLoadedContentRef' = lastLoadedContentRef

\* C33: the completion of a read or a write whose request number is no
\* longer the latest issued leaves content, exists, truncated, error and
\* the last-loaded baseline unchanged.
C33_SupersededChangesNothing ==
    [][/\ \A requestId \in reads :
             (requestId \notin reads' /\ requestId # configRequestIdRef) =>
                 ConfigKept
       /\ \A write \in writes :
             (write \notin writes' /\ write.requestId # configRequestIdRef) =>
                 ConfigKept]_vars

\* A write of another content than the baseline has completed after a
\* later request had started, while the file was not known to exist.
C33_Witness ==
    /\ configLast.kind = "write resolve"
    /\ ~configLast.applied
    /\ configLast.requestId < configRequestIdRef
    /\ ~configState.exists
    /\ configState.content # lastLoadedContentRef

(* ---------------------------------------------------------------------- *)
(* C34                                                                     *)
(* ---------------------------------------------------------------------- *)

\* C34 (as stated): whenever the resolved state is active, range.start <=
\* range.end and query is the text between range.start and range.end.
\* With the cursor right before a trigger character the token found
\* starts at the cursor, and the range begins one past it.
C34_Original ==
    state.active =>
        /\ state.range[1].start <= state.range[1].end
        /\ state.query
               = SubSeq(text, state.range[1].start + 1, state.range[1].end)

(* ---------------------------------------------------------------------- *)
(* C35                                                                     *)
(* ---------------------------------------------------------------------- *)

\* C35 (as stated): whenever matches is not empty, 0 <= highlightIndex <
\* matches.length.  The effect resets the index on a change of the token,
\* not on a change of the item list under the same token.
C35_Original ==
    Len(matches) > 0 =>
        /\ 0 <= highlightIndex
        /\ highlightIndex < Len(matches)

(* ---------------------------------------------------------------------- *)
(* C36                                                                     *)
(* ---------------------------------------------------------------------- *)

\* C36 (as stated): after close(), for as long as the trigger, the query
\* and the token range stay the same, the hook reports active = false and
\* highlightIndex = 0; once any of them has changed the dismissal is
\* cleared.  moveHighlight does not look at the dismissal.
C36_Original ==
    /\ closedAt # None => (~active /\ highlightIndex = 0)
    /\ closedAt = None => ~dismissed

(* ---------------------------------------------------------------------- *)
(* C37                                                                     *)
(* ---------------------------------------------------------------------- *)

\* The items of the entry of the trigger the state names.
SourceItems ==
    IF state.trigger = None \/ FindTrigger(triggers, state.trigger[1]) = None
    THEN <<>>
    ELSE FindTrigger(triggers, state.trigger[1])[1].items

\* The indices of the list whose label, in lower case, starts with the
\* normalized query.
Starting(items) ==
    { index \in 1..Len(items) :
        startsWith(toLowerCase(items[index].label), Normalized(state.query)) }

\* C37: matches holds at most max(0, maxResults) items, the label of each
\* contains, compared in lower case, the trimmed lower-case query, and
\* when an item is returned whose label does not start with the query,
\* every item of the trigger whose label starts with it is returned too.
C37_MatchesRankedThenCut ==
    /\ Len(matches) <= Max(0, maxResults)
    /\ \A index \in 1..Len(matches) :
           includes(toLowerCase(matches[index].label),
                    Normalized(state.query))
    /\ Starting(matches) # 1..Len(matches) =>
           Cardinality(Starting(matches)) = Cardinality(Starting(SourceItems))

\* Of two items that contain the query "a" the second, which starts with
\* it, is the one returned under maxResults = 1.
C37_Witness ==
    /\ state.active
    /\ Normalized(state.query) = <<"a">>
    /\ maxResults = 1
    /\ SourceItems = <<[label |-> <<"b", "a">>], [label |-> <<"A", "b">>]>>
    /\ matches = <<[label |-> <<"A", "b">>]>>

====
